---------------------------- MODULE Spec2Model ----------------------------
(***************************************************************************)
(* BeamBench: the beam propagation engine (src/propagation.js, recompute)  *)
(* together with the scene-editing handlers of src/main.js that feed it.   *)
(*                                                                         *)
(* Conventions of the model                                                *)
(*   - lengths are integers counting micrometres (1e-6 m); wavelengths are *)
(*     integers counting nanometres;                                       *)
(*   - the bench is the optical axis z: sources and elements sit on it,    *)
(*     elements face it (normal along z) unless `tilt` (the 45 degree      *)
(*     mirror of the demo scene).  A ray is on the axis (dir.kind =        *)
(*     "axis") or has left it (a non-zero grating order, a reflection off  *)
(*     a tilted element); it leaves at 30 degrees or more, the elements   *)
(*     it can leave at are 25 mm or more from their neighbours and an      *)
(*     element is 8.4 mm wide at most, so a ray off the axis meets none;   *)
(*   - a relative intensity (|J|^2 / Jnorm^2) is an exact rational         *)
(*     [n, d]; a Jones vector is real, two coprime integers times the      *)
(*     square root of a rational;  the source presets have unit norm, so   *)
(*     Jnorm = 1;                                                          *)
(*   - each of the four sample arrays of a path (pts, dirs, widths, amps)  *)
(*     is a sequence of chunks [n, v]: n consecutive entries, the last of  *)
(*     which is v (a dense run of sampleSegment is one chunk, an explicit  *)
(*     push is a chunk with n = 1);  a width is held by the q it is        *)
(*     computed from.                                                      *)
(***************************************************************************)
EXTENDS Integers, Sequences, FiniteSets, TLC

(* ------------------------------------------------------------------ *)
(* Program constants                                                  *)
(* ------------------------------------------------------------------ *)
MAX_BEAMS == 600
\* AMP_CUTOFF = 0.02 = AMP_CUTOFF_NUM / AMP_CUTOFF_DEN
\* POL_SPACING = 0.005 m, in micrometres
POL_SPACING == 5000
AMP_CUTOFF_NUM == 2
AMP_CUTOFF_DEN == 100
\* the forward nudge 1e-6 m applied after an interaction
NUDGE == 1
\* Raycaster far plane is never nearer than 1e-5 m
RAY_MIN_FAR == 10
\* dense sampling: between 10 and 160 samples per sub-segment, 50 per metre
SAMPLES_MIN == 10
SAMPLES_MAX == 160
SAMPLES_PER_M == 50

(* ------------------------------------------------------------------ *)
(* Bounds of the model                                                *)
(* ------------------------------------------------------------------ *)
\* ELEMENT_ID never exceeds MaxElemId + 1 (elements ever created)
MaxElemId == 4
\* sourceCounter never exceeds MaxSrcId (sources ever created)
MaxSrcId == 2
\* ELEMENT_ID and sourceCounter bounds while the pick list is edited
MaxPickElemId == 6
MaxPickSrcId == 3
\* a scene edit is taken only while the history is shorter than this
MaxHistoryLen == 6
\* ELEMENT_ID and sourceCounter bounds while the history is filled
MaxFillElemId == 8
MaxFillSrcId == 4
\* ELEMENT_ID and sourceCounter bounds while the history is walked
MaxUndoElemId == 12
MaxUndoSrcId == 6
\* ELEMENT_ID bound while one of the large benches is loaded
MaxHeavyElemId == 66

\* path.lastHit = null (element ids start at 1)
NoHit == 0
\* half of the collision box: collisionThickness 1e-6 m, mesh scale 2
HALF_THICK == 1

(* ------------------------------------------------------------------ *)
(* Exact rationals                                                    *)
(* ------------------------------------------------------------------ *)
RECURSIVE GCD(_, _)
GCD(a, b) == IF b = 0 THEN a ELSE GCD(b, a % b)

Rat(n, d) ==
  IF n = 0 THEN [n |-> 0, d |-> 1]
  ELSE LET g == GCD(n, d) IN [n |-> n \div g, d |-> d \div g]

RZero == [n |-> 0, d |-> 1]
ROne  == [n |-> 1, d |-> 1]
RHalf == [n |-> 1, d |-> 2]
RMul(a, b) == Rat(a.n * b.n, a.d * b.d)
RSub(a, b) == Rat(a.n * b.d - b.n * a.d, a.d * b.d)
RLeq(a, b) == a.n * b.d <= b.n * a.d
RLess(a, b) == a.n * b.d < b.n * a.d
RMax(a, b) == IF RLess(a, b) THEN b ELSE a

\* Math.min(1, Math.max(0, r))
Clamp01(r) == IF r.n < 0 THEN RZero ELSE IF r.n > r.d THEN ROne ELSE r

(* ------------------------------------------------------------------ *)
(* Jones vectors                                                      *)
(* ------------------------------------------------------------------ *)
Abs(a) == IF a < 0 THEN -a ELSE a

\* the real Jones vector (Ex, Ey) = (x, y) * sqrt(n / d): x and y coprime
\* integers, n / d in lowest terms; the zero vector is (0, 0) * sqrt(0 / 1)
Jones(x, y, n, d) ==
  LET g == GCD(Abs(x), Abs(y)) IN
  IF g = 0 \/ n = 0 THEN [x |-> 0, y |-> 0, n |-> 0, d |-> 1]
  ELSE LET r == Rat(n * g * g, d)
       IN [x |-> x \div g, y |-> y \div g, n |-> r.n, d |-> r.d]

\* the linear presets ("+45" and "-45" stand for the presets of +45 and
\* -45 degrees)
jonesFrom(preset) ==
  CASE preset = "Linear X" -> Jones(1, 0, 1, 1)
    [] preset = "Linear Y" -> Jones(0, 1, 1, 1)
    [] preset = "+45"      -> Jones(1, 1, 1, 2)
    [] OTHER               -> Jones(1, -1, 1, 2)

\* J[0].mul(sqrt(c)), J[1].mul(sqrt(c))
JScale(J, c) == Jones(J.x, J.y, J.n * c.n, J.d * c.d)
\* J[0].mul(sqrt(c)), J[1].mul(-sqrt(c)): the reflection sign flip
JScaleFlip(J, c) == Jones(J.x, -J.y, J.n * c.n, J.d * c.d)
\* [J[0], 0] and [0, J[1]]
JKeepX(J) == Jones(J.x, 0, J.n, J.d)
JKeepY(J) == Jones(0, J.y, J.n, J.d)

\* an angle th given by a direction: cos th = c / sqrt(c^2 + s^2),
\* sin th = s / sqrt(c^2 + s^2)
Angle(c, s) == [c |-> c, s |-> s]
NegAngle(th) == Angle(th.c, -th.s)
\* Rtheta(th).mulVec(J), Rtheta(th) = [[cos, sin], [-sin, cos]]
RthetaVec(th, J) ==
  Jones(th.c * J.x + th.s * J.y, th.c * J.y - th.s * J.x,
        J.n, J.d * (th.c * th.c + th.s * th.s))

\* (jNorm(J) / Jnorm)^2 with Jnorm = 1
jNorm2(J) == Rat((J.x * J.x + J.y * J.y) * J.n, J.d)

\* jNorm(J)/Jnorm >= AMP_CUTOFF, compared on the squares
AboveCutoffAlways(J) == TRUE
AboveCutoff(J) ==
  (J.x * J.x + J.y * J.y) * J.n * AMP_CUTOFF_DEN * AMP_CUTOFF_DEN
      >= AMP_CUTOFF_NUM * AMP_CUTOFF_NUM * J.d


(* ------------------------------------------------------------------ *)
(* Sources (src/unnamed/part_001, sources.js)                         *)
(* ------------------------------------------------------------------ *)
\* zR = (pi * w0^2 / lambda) / M2, in micrometres (pi ~ 355/113)
ZRFromW0(w0_um, lam_nm, M2) ==
  ((((355 * w0_um * w0_um) \div 113) * 1000) \div lam_nm) \div M2

\* floor(sqrt(x)) for the waists of the model
ISqrt(x) == CHOOSE r \in 0..2000 : r * r <= x /\ (r + 1) * (r + 1) > x

\* w0 = sqrt(zR * lambda * M2 / pi), in micrometres
W0FromZR(zR_um, lam_nm, M2) ==
  ISqrt(((((zR_um \div 1000) * lam_nm) * M2) * 113) \div 355)

Max(a, b) == IF a >= b THEN a ELSE b
Min(a, b) == IF a <= b THEN a ELSE b

\* props.rayleigh_mm is held in thousandths of a millimetre
syncSourceW0ZR(src) ==
  LET M2 == Max(1, src.props.M2) IN
  IF src.lastEdited = "w0"
  THEN [src EXCEPT !.props.rayleigh_mm =
          ZRFromW0(Max(1, src.props.waist_w0_um), src.props.wavelength_nm, M2)]
  ELSE [src EXCEPT !.props.waist_w0_um =
          W0FromZR(Max(1, src.props.rayleigh_mm), src.props.wavelength_nm, M2)]

DefaultSourceProps ==
  [wavelength_nm |-> 633, bandwidth_nm |-> 0, specSamples |-> 9,
   waist_w0_um |-> 200, rayleigh_mm |-> 0, forward_cm |-> 100,
   backward_cm |-> 0, intensity_rel |-> ROne, M2 |-> 1,
   polPreset |-> "Linear X"]

\* the source addSource creates: group.rotation.set(0, yawRad, 0)
NewSource(id, z, yaw) ==
  syncSourceW0ZR([id |-> id, pos |-> z, yaw |-> yaw, roll |-> 0,
                  props |-> DefaultSourceProps, lastEdited |-> "w0"])

\* obj.rotation.set(e.x, e.y, 0): tilt and yaw kept, roll removed
clampKeepsRoll(obj) == obj
clampToPlaneXZ(obj) == [obj EXCEPT !.roll = 0]

(* ------------------------------------------------------------------ *)
(* Elements (src/elements.js factories)                               *)
(* ------------------------------------------------------------------ *)
Band(lo, hi) == [min |-> lo, max |-> hi]

\* props.label is "" while no custom label is set
LensProps(f) == [f |-> f, label |-> ""]
MirrorProps(refl, dichroic) ==
  [flat |-> TRUE, refl |-> refl, dichroic |-> dichroic,
   reflBand_nm |-> Band(400, 700), transBand_nm |-> Band(700, 1100),
   label |-> ""]
PolarizerProps(axisDeg) == [axisDeg |-> axisDeg, label |-> ""]
\* phiDeg is held as the angle it names
FaradayProps(phi) == [phiDeg |-> phi, label |-> ""]
BeamSplitterProps(R, polarizing, polTransmit) ==
  [R |-> R, polarizing |-> polarizing, polTransmit |-> polTransmit,
   label |-> ""]
GratingProps(mode, d_um, orders, vis) ==
  [mode |-> mode, d_um |-> d_um, orders |-> orders, visibleOrders |-> vis,
   label |-> ""]
\* props: {} of a beam block or a multimeter
PlainProps == [label |-> ""]

\* visibleOrders = {}: nothing hidden
NoVis == [m \in {} |-> TRUE]

\* what spawnAt(type, pos) builds for each palette item
PaletteProps(type) ==
  CASE type = "lens"         -> LensProps(1000000)
    [] type = "mirror"       -> MirrorProps(ROne, FALSE)
    [] type = "polarizer"    -> PolarizerProps(0)
    [] type = "beamSplitter" -> BeamSplitterProps(RHalf, FALSE, "Vertical")
    [] type = "grating"      -> GratingProps("reflective", 1, 3, NoVis)
    [] OTHER                 -> PlainProps

MakeElement(id, type, z, tilt, props) ==
  [id |-> id, type |-> type, pos |-> z, tilt |-> tilt, props |-> props]

(* ------------------------------------------------------------------ *)
(* State                                                              *)
(* ------------------------------------------------------------------ *)
VARIABLES
  sources,            \* sources.js: sources
  sourceCounter,      \* sources.js: sourceCounter
  elements,           \* main.js: elements
  ELEMENT_ID,         \* elements.js: ELEMENT_ID
  params,             \* main.js: params (maxSegments, showPolarization)
  recomputePending,   \* main.js: _recomputePending
  frameCallbacks,     \* main.js: callbacks passed to requestAnimationFrame, not yet run
  elementLastInfo,    \* main.js: elementLastInfo (Map id -> readout)
  meterLastInfo,      \* main.js: meterLastInfo
  gratingLastInfo,    \* main.js: gratingLastInfo
  ribbonMeshes,       \* main.js: ribbonMeshes (one entry per drawn path)
  selectable,         \* main.js: selectable (the pick list)
  ruler,              \* ruler.js: ruler (TRUE when the ruler exists)
  history,            \* state.js: history
  historyIndex,       \* state.js: historyIndex
  isRestoringState,   \* state.js: isRestoringState
  pc,                 \* where recompute stands: idle, loop, march, push, draw
  queue,              \* recompute: queue
  completedPaths,     \* recompute: completedPaths
  path,               \* recompute: path (the dequeued one)
  step,               \* recompute: step
  removeImplicitAfter,\* recompute: removeImplicitAfter (a source id, or 0)
  hitLog,             \* observation: the element hits of the last recompute
  runLo,              \* observation: the traversal of the scene under a cap
  runHi               \* observation: the same traversal under a larger cap

vars == <<sources, sourceCounter, elements, ELEMENT_ID, params,
          recomputePending, frameCallbacks, elementLastInfo, meterLastInfo,
          gratingLastInfo,
          ribbonMeshes, selectable, ruler,
          history, historyIndex, isRestoringState, pc, queue,
          completedPaths, path, step, removeImplicitAfter, hitLog,
          runLo, runHi>>

sceneVars == <<sources, sourceCounter, elements, ELEMENT_ID, params,
               recomputePending, frameCallbacks, ribbonMeshes, selectable,
               ruler, history, historyIndex, isRestoringState,
               removeImplicitAfter>>
pickVars == <<selectable, ruler>>
runVars == <<pc, queue, completedPaths, path, step, elementLastInfo,
             meterLastInfo, gratingLastInfo, hitLog>>
capVars == <<runLo, runHi>>

\* F applied to the value of v, v evaluated once (const x = v; F(x))
With(v, F(_)) == CHOOSE r \in {F(x) : x \in {v}} : TRUE

EmptyMap == [i \in {} |-> TRUE]
MapSet(m, k, v) == [i \in (DOMAIN m) \cup {k} |-> IF i = k THEN v ELSE m[i]]
Has(m, k) == k \in DOMAIN m

NoPath == [none |-> TRUE]

(* ------------------------------------------------------------------ *)
(* Ray paths (src/propagation.js)                                     *)
(* ------------------------------------------------------------------ *)
AxisDir(z) == [z |-> z, kind |-> "axis", m |-> 0]
SideDir == [z |-> 0, kind |-> "side", m |-> 0]
OrderDir(z, m) == [z |-> z, kind |-> "order", m |-> m]

\* a point: z along the axis, off = distance gone away from the axis
Pos(z) == [z |-> z, off |-> 0]
\* pos.clone().add(dir.clone().multiplyScalar(L))
Advance(pos, dir, L) ==
  IF dir.kind = "axis" THEN [pos EXCEPT !.z = @ + dir.z * L]
  ELSE [pos EXCEPT !.off = @ + L]

\* a free-space matrix that has lost its B term
freeSpaceNoLength(q, L) == q
\* q -> (1*q + L) / (0*q + 1)
freeSpace(q, L) == [re |-> q.re + L, im |-> q.im]

Chunk(n, v) == [n |-> n, v |-> v]

RECURSIVE SortedSeq(_)
SortedSeq(S) ==
  IF S = {} THEN <<>>
  ELSE LET m == CHOOSE x \in S : \A y \in S : x <= y
       IN <<m>> \o SortedSeq(S \ {m})

\* cuts = [0, L] plus the three waist cuts when the waist lies inside
Cuts(q, L) ==
  LET zWaist == -q.re IN
  IF zWaist > 0 /\ zWaist < L
  THEN LET eps == Max(L \div 10000, 1)
       IN {0, L, Max(0, zWaist - eps), zWaist, Min(L, zWaist + eps)}
  ELSE {0, L}

\* N = Math.min(160, Math.max(10, Math.floor(subL*50))), subL in metres
DenseN(subL) ==
  Min(SAMPLES_MAX, Max(SAMPLES_MIN, (subL * SAMPLES_PER_M) \div 1000000))

\* the dense samples of a free-space segment of length L from path.pos
sampleCuts(p, c) ==
  LET K == Len(c) - 1
      n(k) == DenseN(c[k + 1] - c[k])
  IN [p EXCEPT
        !.pts    = @ \o [k \in 1..K |-> Chunk(n(k), Advance(p.pos, p.dir, c[k + 1]))],
        !.dirs   = @ \o [k \in 1..K |-> Chunk(n(k), p.dir)],
        !.widths = @ \o [k \in 1..K |-> Chunk(n(k), freeSpace(p.q, c[k + 1]))],
        !.amps   = @ \o [k \in 1..K |-> Chunk(n(k), jNorm2(p.J))]]
\* markers that start over half a spacing into every segment
polMarkersPerSegment(p, L) ==
  IF ~params.showPolarization THEN p
  ELSE LET c1 == POL_SPACING \div 2 - L IN
       IF c1 > 0 THEN [p EXCEPT !.polSampleCountdown = c1]
       ELSE LET n == (-c1) \div POL_SPACING + 1
            IN [p EXCEPT
                  !.polSamples = Append(@, [n |-> n, first |-> p.traveled + POL_SPACING \div 2]),
                  !.polSampleCountdown = c1 + n * POL_SPACING]

\* the polarization markers of a segment of length L: countdown -= L; while
\* (countdown <= 0) { marker at traveled + L + countdown; countdown +=
\* POL_SPACING }. The n markers of one segment are kept as their number and
\* the total distance of the first (the next ones are POL_SPACING apart).
polMarkers(p, L) ==
  IF ~params.showPolarization THEN p
  ELSE LET c1 == p.polSampleCountdown - L IN
       IF c1 > 0 THEN [p EXCEPT !.polSampleCountdown = c1]
       ELSE LET n == (-c1) \div POL_SPACING + 1
            IN [p EXCEPT
                  !.polSamples = Append(@, [n |-> n, first |-> p.traveled + L + c1]),
                  !.polSampleCountdown = c1 + n * POL_SPACING]

sampleSegment(p, L) ==
  With(SortedSeq(Cuts(p.q, L)), LAMBDA c : sampleCuts(polMarkers(p, L), c))

\* a sample pushed without its amplitude
pushSampleNoAmp(p) ==
  [p EXCEPT !.pts    = Append(@, Chunk(1, p.pos)),
            !.dirs   = Append(@, Chunk(1, p.dir)),
            !.widths = Append(@, Chunk(1, p.q))]
\* pts.push(pos); dirs.push(dir); widths.push(wFromQ(q)); amps.push(|J|/Jnorm)
pushSample(p) ==
  [p EXCEPT !.pts    = Append(@, Chunk(1, p.pos)),
            !.dirs   = Append(@, Chunk(1, p.dir)),
            !.widths = Append(@, Chunk(1, p.q)),
            !.amps   = Append(@, Chunk(1, jNorm2(p.J)))]

\* the number of entries of a sample array
RECURSIVE Count(_)
Count(arr) == IF arr = <<>> THEN 0 ELSE Head(arr).n + Count(Tail(arr))

(* ---- seeding ---- *)
\* the spectral samples of a source: wavelength (nm) and normalised weight.
\* The Gaussian weight exp(-4 ln2 (dnm/BW)^2) = 2^(-frac^2) of the sample at
\* frac = k/half is taken on the chord 1 - frac^2/2 of 2^(-x) over [0, 1]:
\* exact at the centre and at the two edges, so exact for N = 3 (1/2, 1, 1/2).
GaussWeight(k, half) == 2 * half * half - k * k
\* samples.reduce((a, b) => a + b.weight, 0), summed by halves
RECURSIVE SumWeights(_, _, _)
SumWeights(lo, hi, half) ==
  IF lo = hi THEN GaussWeight(lo, half)
  ELSE With((lo + hi) \div 2, LAMBDA mid :
         SumWeights(lo, mid, half) + SumWeights(mid + 1, hi, half))
\* spectral sampling that keeps an even sample count as asked
SpectralSamplesAsAsked(s) ==
  LET BW == Max(0, s.props.bandwidth_nm)
      N  == Max(1, s.props.specSamples)
  IN IF BW <= 0 \/ N = 1
     THEN << [lam |-> s.props.wavelength_nm, weight |-> ROne] >>
     ELSE [i \in 1..N |-> [lam |-> s.props.wavelength_nm + i, weight |-> Rat(1, N)]]
SpectralSamples(s) ==
  LET BW == Max(0, s.props.bandwidth_nm)
      N0 == Max(1, s.props.specSamples)
      N  == IF BW > 0 /\ N0 % 2 = 0 THEN N0 + 1 ELSE N0
  IN IF BW <= 0 \/ N = 1
     THEN << [lam |-> s.props.wavelength_nm, weight |-> ROne] >>
     ELSE With((N - 1) \div 2, LAMBDA half :
            With(SumWeights(-half, half, half), LAMBDA sumW :
              [i \in 1..N |->
                 [lam    |-> s.props.wavelength_nm + ((i - 1 - half) * BW) \div (2 * half),
                  weight |-> Rat(GaussWeight(i - 1 - half, half), sumW)]]))

makeSeed(s, dirz, maxLen, lam, weight) ==
  LET M2 == Max(1, s.props.M2)
      zR == IF s.lastEdited = "w0"
            THEN ZRFromW0(Max(1, s.props.waist_w0_um), lam, M2)
            ELSE Max(1, s.props.rayleigh_mm)
      J  == JScale(jonesFrom(s.props.polPreset), RMul(weight, s.props.intensity_rel))
      q0 == [re |-> 0, im |-> zR]
  IN [pos |-> Pos(s.pos), dir |-> AxisDir(dirz), q |-> q0, J |-> J,
      lam |-> lam, M2 |-> M2, traveled |-> 0, lastHit |-> NoHit,
      maxLen |-> maxLen,
      polSamples |-> <<>>, polSampleCountdown |-> POL_SPACING \div 2,
      pts |-> << Chunk(1, Pos(s.pos)) >>, dirs |-> << Chunk(1, AxisDir(dirz)) >>,
      widths |-> << Chunk(1, q0) >>, amps |-> << Chunk(1, jNorm2(J)) >>]

\* for (smp of samples) { if (Lf>0) push forward; if (Lb>0) push backward }
SeedsOfSamples(s, smps) ==
  LET Lf  == Max(0, s.props.forward_cm * 10000)
      Lb  == Max(0, s.props.backward_cm * 10000)
      per == (IF Lf > 0 THEN 1 ELSE 0) + (IF Lb > 0 THEN 1 ELSE 0)
  IN [k \in 1..(per * Len(smps)) |->
        LET smp == smps[(k - 1) \div per + 1]
        IN IF Lf > 0 /\ (k - 1) % per = 0
           THEN makeSeed(s, s.yaw, Lf, smp.lam, smp.weight)
           ELSE makeSeed(s, -s.yaw, Lb, smp.lam, smp.weight)]

RECURSIVE Seeds(_)
Seeds(srcs) ==
  IF srcs = <<>> THEN <<>>
  ELSE SeedsOfSamples(Head(srcs), SpectralSamples(Head(srcs))) \o Seeds(Tail(srcs))

(* ---- ray casting ---- *)
\* Raycaster far plane: Math.max(1e-5, path.maxLen - path.traveled)
Far(p) == Max(RAY_MIN_FAR, p.maxLen - p.traveled)

\* distance along the ray to the entry face of the collision box of el
HitDist(p, el) == (el.pos - p.pos.z) * p.dir.z - HALF_THICK

\* a ray caster whose near distance is 0: a face the ray starts on is hit
HitsFromZero(p, els) ==
  {i \in 1..Len(els) :
     /\ p.dir.kind = "axis" /\ p.pos.off = 0
     /\ els[i].id # p.lastHit
     /\ HitDist(p, els[i]) >= 0
     /\ HitDist(p, els[i]) <= Far(p)}
\* intersectObjects(meshes).filter(h => h.object !== path.lastHit)
Hits(p, els) ==
  {i \in 1..Len(els) :
     /\ p.dir.kind = "axis" /\ p.pos.off = 0
     /\ els[i].id # p.lastHit
     /\ HitDist(p, els[i]) >= 1
     /\ HitDist(p, els[i]) <= Far(p)}

\* hits[0]: the nearest one
FirstHit(p, els) ==
  CHOOSE i \in Hits(p, els) :
    \A j \in Hits(p, els) : HitDist(p, els[i]) <= HitDist(p, els[j])

(* ---- interactions ---- *)
\* dirv - 2 (dirv . n) n, for an element facing the axis or turned by 45 deg
reflectAcrossElementNormal(dir, el) ==
  IF el.tilt THEN SideDir ELSE AxisDir(-dir.z)

\* a branch: cloneBase(), its dir, lastHit, J and q set, one sample pushed,
\* then moved 1e-6 m along its direction
Branch(p, el, dir, J, q) ==
  LET b == [p EXCEPT !.dir = dir, !.lastHit = el.id, !.J = J, !.q = q]
  IN [pushSample(b) EXCEPT !.pos = Advance(b.pos, dir, NUDGE)]

\* the record stored in elementLastInfo / meterLastInfo
Readout(b, el, inDir, I) ==
  [aoi_deg |-> IF el.tilt THEN 45 ELSE 0, incomingDir |-> inDir,
   pos |-> b.pos, q |-> b.q, lam |-> b.lam, M2 |-> b.M2, J |-> b.J,
   Irel |-> I]

\* thin lens, q -> q / (1 - q/f), evaluated in millimetres
LensABCD(q, f) ==
  LET a  == q.re \div 1000
      b  == q.im \div 1000
      fm == f \div 1000
      D  == (fm - a) * (fm - a) + b * b
  IN IF D = 0 THEN q
     ELSE [re |-> ((fm * (a * (fm - a) - b * b)) \div D) * 1000,
           im |-> ((fm * b * fm) \div D) * 1000]

\* the first strongest branch (strict > while scanning), 0 if there is none
RECURSIVE BestFrom(_, _, _)
BestFrom(bs, i, best) ==
  IF i > Len(bs) THEN best
  ELSE IF best = 0 \/ RLess(jNorm2(bs[best].J), jNorm2(bs[i].J))
       THEN BestFrom(bs, i + 1, i)
       ELSE BestFrom(bs, i + 1, best)
Best(bs) == BestFrom(bs, 1, 0)

NoInfo == [none |-> TRUE]

\* a splitter that sends the whole beam on and a share R back
SplitterBranchesGain(p, el) ==
  << Branch(p, el, p.dir, p.J, p.q),
     Branch(p, el, reflectAcrossElementNormal(p.dir, el),
            JScaleFlip(p.J, Clamp01(el.props.R)), p.q) >>
\* a PBS that transmits Ey whatever polTransmit says
SplitterBranchesAlwaysVertical(p, el) ==
  LET R  == Clamp01(el.props.R)
      Jt == IF el.props.polarizing THEN JKeepY(p.J) ELSE JScale(p.J, RSub(ROne, R))
      Jr == IF el.props.polarizing THEN JKeepX(p.J) ELSE JScaleFlip(p.J, R)
  IN << Branch(p, el, p.dir, Jt, p.q),
        Branch(p, el, reflectAcrossElementNormal(p.dir, el), Jr, p.q) >>
\* the two branches of a beam splitter / PBS, transmitted first
SplitterBranches(p, el) ==
  LET R  == Clamp01(el.props.R)
      T  == RSub(ROne, R)
      wantTransmit == (el.props.polTransmit = "Vertical")
      Jt == IF el.props.polarizing
            THEN (IF wantTransmit THEN JKeepY(p.J) ELSE JKeepX(p.J))
            ELSE JScale(p.J, T)
      Jr == IF el.props.polarizing
            THEN (IF wantTransmit THEN JKeepX(p.J) ELSE JKeepY(p.J))
            ELSE JScaleFlip(p.J, R)
  IN << Branch(p, el, p.dir, Jt, p.q),
        Branch(p, el, reflectAcrossElementNormal(p.dir, el), Jr, p.q) >>

\* best = (tI >= rI) ? transmitted : reflected
SplitterBestReflected(bs) == 2
SplitterBest(bs) ==
  IF RLeq(jNorm2(bs[2].J), jNorm2(bs[1].J)) THEN 1 ELSE 2

\* a band that leaves its two bounds out
InBandOpen(nm, band) == nm > band.min /\ nm < band.max
InBand(nm, band) == nm >= band.min /\ nm <= band.max

\* reflectance of a mirror for a wavelength (dichroic bands override refl)
MirrorRefl(el, nm) ==
  IF el.props.dichroic
  THEN (IF InBand(nm, el.props.reflBand_nm) THEN ROne ELSE RZero)
  ELSE Clamp01(el.props.refl)

\* transmitted branch if T > 0, reflected branch if refl > 0
MirrorBranches(p, el) ==
  LET refl == MirrorRefl(el, p.lam)
      T    == RSub(ROne, refl)
  IN (IF T.n > 0
      THEN << Branch(p, el, p.dir, JScale(p.J, T), p.q) >> ELSE <<>>)
     \o
     (IF refl.n > 0
      THEN << Branch(p, el, reflectAcrossElementNormal(p.dir, el),
                     JScaleFlip(p.J, refl), p.q) >>
      ELSE <<>>)

\* x <= sg * b * sqrt(1/2), for sg = 1 or -1 and b > 0
LeqRootHalf(x, sg, b) ==
  IF sg = 1 THEN x <= 0 \/ 2 * x * x <= b * b
  ELSE x <= 0 /\ 2 * x * x >= b * b

\* Math.abs(sinBeta) <= 1 for sinBeta = sinAlpha - m * lambda / d, where
\* sinAlpha = inDir.dot(t) is 0 for an element facing the axis and
\* -dir.z * sqrt(1/2) for one turned by 45 degrees
\* the test of normal incidence applied at any incidence
OrderPresentNormal(el, dir, lam, m) == Abs(m * lam) <= el.props.d_um * 1000
OrderPresent(el, dir, lam, m) ==
  LET a == m * lam
      b == el.props.d_um * 1000
  IN IF el.tilt
     THEN /\ LeqRootHalf(a - b, -dir.z, b)
          /\ LeqRootHalf(-(a + b), dir.z, b)
     ELSE Abs(a) <= b

\* the orders m = -M .. M that are not skipped, in increasing m
computeGratingOrders(el, dir, lam) ==
  LET M == Max(0, el.props.orders)
  IN SortedSeq({m \in (-M)..M : OrderPresent(el, dir, lam, m)})

\* alpha = atan2(sinAlpha, cosAlpha), in degrees
GratingAlphaDeg(el, dir) == IF el.tilt THEN -45 * dir.z ELSE 0

\* out direction of order m: n * nComp + t * sinBeta; on the axis for the
\* order 0 of a grating facing the axis and for the straight-through order 0
\* of a transmissive one, away from the axis otherwise
OrderOut(p, el, m) ==
  LET zs == IF el.props.mode = "reflective" THEN -p.dir.z ELSE p.dir.z
  IN IF el.tilt
     THEN (IF m # 0 THEN OrderDir(0, m)
           ELSE IF el.props.mode = "reflective" THEN SideDir
           ELSE AxisDir(p.dir.z))
     ELSE IF m = 0 THEN AxisDir(zs)
     ELSE IF Abs(m) * p.lam = el.props.d_um * 1000
          THEN OrderDir(0, m) ELSE OrderDir(zs, m)

Hidden(el, m) == m \in DOMAIN el.props.visibleOrders /\ el.props.visibleOrders[m] = FALSE

\* one branch per order that is not hidden, each with gain^2 = 1/orders.length
GratingBranches(p, el) ==
  LET orders == computeGratingOrders(el, p.dir, p.lam)
      shown  == SelectSeq(orders, LAMBDA m : ~Hidden(el, m))
      g2     == Rat(1, Len(orders))
  IN [k \in 1..Len(shown) |->
        Branch(p, el, OrderOut(p, el, shown[k]),
               IF el.props.mode = "reflective"
               THEN JScaleFlip(p.J, g2) ELSE JScale(p.J, g2),
               p.q)]

\* el.jones(J, {dir}) of a linear polariser with its axis along x or y
PolarizerJones(J, el) == IF el.props.axisDeg = 0 THEN JKeepX(J) ELSE JKeepY(J)

\* a rotator that turns the same way whichever face the ray enters
FaradayJonesOneWay(J, el, dir) == RthetaVec(NegAngle(el.props.phiDeg), J)
\* el.jones(J, {dir}) of a Faraday rotator: Rtheta(-sgn * phi), sgn = 1 when
\* the ray runs along the +Z normal of the element (nW.dot(k) >= 0)
FaradayJones(J, el, dir) ==
  IF dir.z >= 0 THEN RthetaVec(NegAngle(el.props.phiDeg), J)
  ELSE RthetaVec(el.props.phiDeg, J)

\* el.jones(path.J, {dir: path.dir})
ElementJones(J, el, dir) ==
  IF el.type = "faraday" THEN FaradayJones(J, el, dir) ELSE PolarizerJones(J, el)

(* ------------------------------------------------------------------ *)
(* The traversal loop of recompute, on a record R of its state:       *)
(*   pc, queue, completedPaths, path, step, elementLastInfo,          *)
(*   meterLastInfo, gratingLastInfo, hitLog                           *)
(* ------------------------------------------------------------------ *)
\* hitLog entry: the element struck, the relative intensity of every
\* branch created there, and (beam block only) the path as it arrived
LogEntry(el, outs, arrived) ==
  [el |-> el.id, type |-> el.type, outs |-> outs, arrived |-> arrived]

Intensities(bs) == [k \in 1..Len(bs) |-> jNorm2(bs[k].J)]

\* while (queue.length && (completedPaths.length + queue.length) < MAX_BEAMS)
LoopCondNoCap(R, capv) == Len(R.queue) # 0
LoopCondLeavesLast(R, capv) ==
  Len(R.queue) > 1 /\ Len(R.completedPaths) + Len(R.queue) < capv
LoopCond(R, capv) ==
  Len(R.queue) # 0 /\ Len(R.completedPaths) + Len(R.queue) < capv

\* a dequeue that lets the step counter run on from the path before
DequeueKeepStep(R) ==
  [R EXCEPT !.pc = "march", !.path = Head(R.queue), !.queue = Tail(R.queue)]
\* const path = queue.shift(); step = 0
Dequeue(R) ==
  [R EXCEPT !.pc = "march", !.path = Head(R.queue), !.queue = Tail(R.queue),
            !.step = 0]

\* step < maxSteps && path.traveled < path.maxLen
StepCondNoCap(R, maxSteps) == R.path.traveled < R.path.maxLen
StepCond(R, maxSteps) ==
  R.step < maxSteps /\ R.path.traveled < R.path.maxLen

\* no hit: sample the rest of the budget, then break
NoHitStep(R) ==
  LET p == R.path
      L == p.maxLen - p.traveled
  IN [R EXCEPT !.path = [sampleSegment(p, L) EXCEPT !.traveled = @ + L],
               !.pc = "push"]

\* propagate to the plane of the element hit at distance L
Propagate(p, L) ==
  [sampleSegment(p, L) EXCEPT !.traveled = @ + L,
                              !.pos = Advance(p.pos, p.dir, L),
                              !.q = freeSpace(p.q, L)]

\* beam block: break
BlockStep(R, a, el) ==
  [R EXCEPT !.path = a, !.pc = "push",
            !.hitLog = Append(@, LogEntry(el, <<>>, a))]

\* queue.push(b) for each branch that clears the cutoff, in creation order
PushBranches(qu, bs) ==
  qu \o SelectSeq(bs, LAMBDA b : AboveCutoff(b.J))

\* beam splitter, mirror, grating: branches, readout of the strongest, break
ForkBranches(a, el) ==
  CASE el.type = "beamSplitter" -> SplitterBranches(a, el)
    [] el.type = "mirror"       -> MirrorBranches(a, el)
    [] OTHER                    -> GratingBranches(a, el)
ForkWith(R, a, el, bs) ==
  LET best == IF el.type = "beamSplitter" THEN SplitterBest(bs) ELSE Best(bs)
  IN [R EXCEPT
        !.path = a, !.pc = "push",
        !.queue = PushBranches(@, bs),
        !.elementLastInfo =
           IF best = 0 THEN @
           ELSE MapSet(@, el.id, Readout(bs[best], el, a.dir, jNorm2(bs[best].J))),
        !.gratingLastInfo =
           IF el.type = "grating"
           THEN MapSet(@, el.id, [alphaDeg |-> GratingAlphaDeg(el, a.dir),
                                  entries |-> computeGratingOrders(el, a.dir, a.lam)])
           ELSE @,
        !.hitLog = Append(@, LogEntry(el, Intensities(bs), NoPath))]
ForkStep(R, a, el) ==
  With(ForkBranches(a, el), LAMBDA bs : ForkWith(R, a, el, bs))

\* multimeter: record the reading, pass straight through, continue
MeterStepAbsorbing(R, a, el) ==
  LET out == [pushSample([a EXCEPT !.lastHit = el.id, !.J = JScale(a.J, RHalf)])
                EXCEPT !.pos = Advance(a.pos, a.dir, NUDGE)]
  IN [R EXCEPT !.path = out, !.step = @ + 1,
               !.meterLastInfo = MapSet(@, el.id, Readout(a, el, a.dir, jNorm2(a.J))),
               !.hitLog = Append(@, LogEntry(el, << jNorm2(out.J) >>, NoPath))]
MeterStep(R, a, el) ==
  LET out == [pushSample([a EXCEPT !.lastHit = el.id])
                EXCEPT !.pos = Advance(a.pos, a.dir, NUDGE)]
  IN [R EXCEPT !.path = out, !.step = @ + 1,
               !.meterLastInfo = MapSet(@, el.id, Readout(a, el, a.dir, jNorm2(a.J))),
               !.hitLog = Append(@, LogEntry(el, << jNorm2(out.J) >>, NoPath))]

\* thin lens hit on its axis: q update, readout, continue
LensStep(R, a, el) ==
  LET b   == [a EXCEPT !.q = LensABCD(a.q, el.props.f)]
      out == [pushSample([b EXCEPT !.lastHit = el.id])
                EXCEPT !.pos = Advance(b.pos, b.dir, NUDGE)]
  IN [R EXCEPT !.path = out, !.step = @ + 1,
               !.elementLastInfo = MapSet(@, el.id, Readout(b, el, a.dir, jNorm2(b.J))),
               !.hitLog = Append(@, LogEntry(el, << jNorm2(b.J) >>, NoPath))]

\* other elements (polariser, Faraday rotator): J update, readout,
\* lastHit = null, no nudge
OtherStep(R, a, el) ==
  LET b   == [a EXCEPT !.J = ElementJones(a.J, el, a.dir)]
      out == pushSample([b EXCEPT !.lastHit = NoHit])
  IN [R EXCEPT !.path = out, !.step = @ + 1,
               !.elementLastInfo = MapSet(@, el.id, Readout(b, el, a.dir, jNorm2(b.J))),
               !.hitLog = Append(@, LogEntry(el, << jNorm2(b.J) >>, NoPath))]

\* one pass through the body of the step loop
Interact(R, a, el) ==
  CASE el.type = "beamBlock"  -> BlockStep(R, a, el)
    [] el.type \in {"beamSplitter", "mirror", "grating"} -> ForkStep(R, a, el)
    [] el.type = "multimeter" -> MeterStep(R, a, el)
    [] el.type = "lens"       -> LensStep(R, a, el)
    [] OTHER                  -> OtherStep(R, a, el)
HitStep(R, el) ==
  With(Propagate(R.path, HitDist(R.path, el)), LAMBDA a : Interact(R, a, el))
March(R, els) ==
  IF Hits(R.path, els) = {} THEN NoHitStep(R)
  ELSE With(els[FirstHit(R.path, els)], LAMBDA el : HitStep(R, el))

\* completedPaths.push(path)
PushCompletedSkipBlocked(R, els) ==
  [R EXCEPT !.pc = "loop",
            !.completedPaths =
               IF \E i \in 1..Len(els) : els[i].type = "beamBlock"
                     /\ R.path.pos.z = els[i].pos - R.path.dir.z * HALF_THICK
                     /\ R.path.pos.off = 0
               THEN @ ELSE Append(@, R.path)]
PushCompleted(R, els) ==
  [R EXCEPT !.pc = "loop", !.completedPaths = Append(@, R.path)]

\* the paths handed to the ribbon builder after the loop
FinishedPathsFlushed(R) == R.completedPaths \o R.queue
FinishedPaths(R) == R.completedPaths

\* one step of the loop under the path cap capv
RunStep(R, els, maxSteps, capv) ==
  CASE R.pc = "loop" ->
         IF LoopCond(R, capv) THEN Dequeue(R)
         ELSE [R EXCEPT !.pc = "draw", !.completedPaths = FinishedPaths(R)]
    [] R.pc = "march" ->
         IF StepCond(R, maxSteps) THEN March(R, els)
         ELSE [R EXCEPT !.pc = "push"]
    [] R.pc = "push" -> PushCompleted(R, els)
    [] OTHER -> R

(* ------------------------------------------------------------------ *)
(* History and save/load (src/unnamed/part_002, state.js)             *)
(* ------------------------------------------------------------------ *)
MAX_HISTORY == 50

\* captureState() on the scene given; the ruler field is FALSE where the
\* state has no ruler property
captureScene(srcs, els, rul) ==
  [sources  |-> [i \in 1..Len(srcs) |->
                   [props |-> srcs[i].props, pos |-> srcs[i].pos,
                    yaw |-> srcs[i].yaw, roll |-> srcs[i].roll]],
   elements |-> [i \in 1..Len(els) |->
                   [type |-> els[i].type, props |-> els[i].props,
                    pos |-> els[i].pos, tilt |-> els[i].tilt]],
   ruler    |-> rul]
captureState(srcs, els) == captureScene(srcs, els, ruler)
\* state.ruler as restoreState tests it
RulerOf(state) == IF "ruler" \in DOMAIN state THEN state.ruler ELSE FALSE

(* ---- the pick list ---- *)
\* el.mesh of an element, the handle of a source, the points of the ruler
Mesh(id) == [kind |-> "mesh", id |-> id]
Handle(id) == [kind |-> "handle", id |-> id]
RulerPoints == [k \in 1..3 |-> [kind |-> "rulerPoint", id |-> k]]
\* an indexOf that never finds the object
indexOfAbsent(arr, x) == -1
\* arr.indexOf(x): the first index, from 0, or -1
indexOf(arr, x) ==
  IF \E k \in 1..Len(arr) : arr[k] = x
  THEN (CHOOSE k \in 1..Len(arr) :
          arr[k] = x /\ \A j \in 1..(k - 1) : arr[j] # x) - 1
  ELSE -1
\* arr.splice(start, 1): a negative start counts from the end
splice(arr, start) ==
  LET s == IF start < 0 THEN Max(Len(arr) + start, 0) ELSE Min(start, Len(arr))
  IN SubSeq(arr, 1, s) \o SubSeq(arr, s + 2, Len(arr))
\* selectable.splice(selectable.indexOf(obj), 1) for each obj of objs in turn
RECURSIVE SpliceAll(_, _)
SpliceAll(arr, objs) ==
  IF objs = <<>> THEN arr
  ELSE SpliceAll(splice(arr, indexOf(arr, Head(objs))), Tail(objs))
\* const index = selectable.indexOf(p); if (index > -1) splice(index, 1)
RECURSIVE SpliceFound(_, _)
SpliceFound(arr, objs) ==
  IF objs = <<>> THEN arr
  ELSE SpliceFound(IF indexOf(arr, Head(objs)) > -1
                   THEN splice(arr, indexOf(arr, Head(objs))) ELSE arr,
                   Tail(objs))
Handles(srcs) == [i \in 1..Len(srcs) |-> Handle(srcs[i].id)]
Meshes(els) == [i \in 1..Len(els) |-> Mesh(els[i].id)]

\* a pushHistory() that does not look at isRestoringState
pushHistoryUnguarded(h, idx, restoring, snap) ==
  LET cut  == IF idx < Len(h) - 1 THEN SubSeq(h, 1, idx + 1) ELSE h
      full == Append(cut, snap)
      kept == IF Len(full) > MAX_HISTORY THEN Tail(full) ELSE full
  IN [history |-> kept, historyIndex |-> Len(kept) - 1]
\* a pushHistory() that never drops the oldest entry
pushHistoryNoShift(h, idx, restoring, snap) ==
  IF restoring THEN [history |-> h, historyIndex |-> idx]
  ELSE LET cut == IF idx < Len(h) - 1 THEN SubSeq(h, 1, idx + 1) ELSE h
       IN [history |-> Append(cut, snap), historyIndex |-> Len(cut)]
\* pushHistory(): the new history and historyIndex
pushHistory(h, idx, restoring, snap) ==
  IF restoring THEN [history |-> h, historyIndex |-> idx]
  ELSE LET cut  == IF idx < Len(h) - 1 THEN SubSeq(h, 1, idx + 1) ELSE h
           full == Append(cut, snap)
           kept == IF Len(full) > MAX_HISTORY THEN Tail(full) ELSE full
       IN [history |-> kept, historyIndex |-> Len(kept) - 1]

\* the sources and elements restoreState(state) re-creates: fresh ids,
\* lastEdited = 'w0', pose and props of the state
RestoredSources(state, counter) ==
  [i \in 1..Len(state.sources) |->
     syncSourceW0ZR([id |-> counter + i, pos |-> state.sources[i].pos,
                     yaw |-> state.sources[i].yaw, roll |-> state.sources[i].roll,
                     props |-> state.sources[i].props, lastEdited |-> "w0"])]

\* recreateFuncs[type](props): the factory takes the properties it names,
\* a label is not one of them; visibleOrders of a grating is copied after
RecreateProps(type, props) == [props EXCEPT !.label = ""]

RestoredElements(state, nextId) ==
  [i \in 1..Len(state.elements) |->
     MakeElement(nextId + i - 1, state.elements[i].type, state.elements[i].pos,
                 state.elements[i].tilt,
                 RecreateProps(state.elements[i].type, state.elements[i].props))]

\* what captureState would see at each addSource and addElement call of
\* restoreState: the source or element just added has not got its
\* orientation (and, a source, its props) yet
RestoreSnaps(state, counter, nextId) ==
  LET srcs == RestoredSources(state, counter)
      els  == RestoredElements(state, nextId)
      ns   == Len(srcs)
  IN [k \in 1..(ns + Len(els)) |->
        IF k <= ns
        THEN captureState(Append(SubSeq(srcs, 1, k - 1),
                                 NewSource(counter + k, srcs[k].pos, 1)), <<>>)
        ELSE captureState(srcs, Append(SubSeq(els, 1, k - ns - 1),
                                       [els[k - ns] EXCEPT !.tilt = FALSE]))]

\* the pushHistory() calls of the snapshots lo..hi, in order (taken by
\* halves)
RECURSIVE PushRange(_, _, _, _, _)
PushRange(r, restoring, snaps, lo, hi) ==
  IF lo > hi THEN r
  ELSE IF lo = hi
  THEN pushHistory(r.history, r.historyIndex, restoring, snaps[lo])
  ELSE With((lo + hi) \div 2, LAMBDA mid :
         With(PushRange(r, restoring, snaps, lo, mid), LAMBDA r1 :
           PushRange(r1, restoring, snaps, mid + 1, hi)))
\* the pushHistory() calls of a sequence of snapshots
PushAll(h, idx, restoring, snaps) ==
  With(snaps, LAMBDA s :
    PushRange([history |-> h, historyIndex |-> idx], restoring, s, 1, Len(s)))

(* ------------------------------------------------------------------ *)
(* Scenes                                                             *)
(* ------------------------------------------------------------------ *)
\* the demo scene main.js builds at start-up
DemoLens == MakeElement(1, "lens", 50000, FALSE, LensProps(50000))
DemoMirror(tilt) == MakeElement(2, "mirror", 135000, tilt, MirrorProps(ROne, FALSE))
DemoSource ==
  syncSourceW0ZR([NewSource(1, 0, 1) EXCEPT !.props.wavelength_nm = 530,
                                           !.props.waist_w0_um = 200])

\* the history the start-up calls leave: addElement, addElement, addSource,
\* then the explicit pushHistory after the first doRecompute
DemoHistory ==
  << captureState(<<>>, << DemoLens >>),
     captureState(<<>>, << DemoLens, DemoMirror(FALSE) >>),
     captureState(<< NewSource(1, 0, 1) >>, << DemoLens, DemoMirror(TRUE) >>),
     captureState(<< DemoSource >>, << DemoLens, DemoMirror(TRUE) >>) >>

\* where the palette drops and the gizmo put things on the axis
ElementSlots == {25000, 100000}
SourceSlots == {-40000}
\* what is typed into the Label field
Labels == {"L1"}
PaletteTypes == {"lens", "mirror", "polarizer", "beamSplitter", "beamBlock",
                 "grating", "multimeter"}

\* saved-state files: what captureState wrote, or a hand-written JSON
FileSource(props, z, yaw, roll) ==
  [props |-> props, pos |-> z, yaw |-> yaw, roll |-> roll]
FileElement(type, z, props) ==
  [type |-> type, props |-> props, pos |-> z, tilt |-> FALSE]
\* an element turned by 45 degrees about the vertical
FileTilted(type, z, props) ==
  [type |-> type, props |-> props, pos |-> z, tilt |-> TRUE]

\* a broadband, rolled, 45-degree polarised source in front of a weak
\* splitter and a detector
FileBench ==
  [sources  |-> << FileSource([DefaultSourceProps EXCEPT
                                 !.bandwidth_nm = 20, !.specSamples = 3,
                                 !.polPreset = "+45"], 0, 1, 30) >>,
   elements |-> << FileElement("beamSplitter", 100000,
                               BeamSplitterProps(Rat(1, 10000), FALSE, "Vertical")),
                   FileElement("multimeter", 300000, PlainProps) >>]

\* an empty bench
FileEmpty == [sources |-> <<>>, elements |-> <<>>]

Files == {FileBench, FileEmpty}

\* a cavity: two full mirrors around a half mirror, the source inside
FileCavity(forward_cm, backward_cm) ==
  [sources  |-> << FileSource([DefaultSourceProps EXCEPT
                                 !.forward_cm = forward_cm,
                                 !.backward_cm = backward_cm], 150000, 1, 0) >>,
   elements |-> << FileElement("mirror", 100000, MirrorProps(ROne, FALSE)),
                   FileElement("mirror", 200000, MirrorProps(RHalf, FALSE)),
                   FileElement("mirror", 300000, MirrorProps(ROne, FALSE)) >>]

\* a hand-written file: a broadband source of SeedSamples spectral samples
\* sent both ways, which seeds two paths per sample
SeedSamples == 301
FileSeeds ==
  [sources  |-> << FileSource([DefaultSourceProps EXCEPT
                                 !.bandwidth_nm = 20, !.specSamples = SeedSamples,
                                 !.backward_cm = 100], 0, 1, 0) >>,
   elements |-> <<>>]

\* a long line of detectors and lenses, one every centimetre
LongLen == 62
FileLong ==
  [sources  |-> << FileSource(DefaultSourceProps, 0, 1, 0) >>,
   elements |-> [i \in 1..LongLen |->
                   IF i % 4 = 0
                   THEN FileElement("lens", 10000 * i, LensProps(1000000))
                   ELSE FileElement("multimeter", 10000 * i, PlainProps)]]

(* ---- single-purpose benches, as saved files ---- *)
\* a lone source: bandwidth, spectral samples, forward and backward length
FileSpectral(bw, n, fwd, bwd) ==
  [sources  |-> << FileSource([DefaultSourceProps EXCEPT
                                 !.bandwidth_nm = bw, !.specSamples = n,
                                 !.forward_cm = fwd, !.backward_cm = bwd],
                              0, 1, 0) >>,
   elements |-> <<>>]
SpectralFiles ==
  {FileSpectral(bw, n, fwd, bwd) :
     bw \in {-5, 0, 20}, n \in {-1, 0, 1, 2, 3, 4}, fwd \in {0, 100},
     bwd \in {-10, 0, 50}}

\* three wavelengths 1 nm apart around lam on a dichroic mirror whose scalar
\* reflectance is 1/2
FileDichroic(lam) ==
  [sources  |-> << FileSource([DefaultSourceProps EXCEPT
                                 !.wavelength_nm = lam, !.bandwidth_nm = 2,
                                 !.specSamples = 3], 0, 1, 0) >>,
   elements |-> << FileElement("mirror", 100000, MirrorProps(RHalf, TRUE)) >>]
DichroicFiles == {FileDichroic(lam) : lam \in {400, 633, 700, 1100}}

\* a grating 100 mm from a source that faces it from either side
HideOrder(m) == [k \in {m} |-> FALSE]
FileGrating(mode, d_um, orders, tilted, vis, lam, yaw) ==
  [sources  |-> << FileSource([DefaultSourceProps EXCEPT !.wavelength_nm = lam],
                              -100000 * yaw, yaw, 0) >>,
   elements |-> << IF tilted
                   THEN FileTilted("grating", 0, GratingProps(mode, d_um, orders, vis))
                   ELSE FileElement("grating", 0, GratingProps(mode, d_um, orders, vis)) >>]
GratingFiles ==
  {FileGrating(mode, d_um, orders, tilted, NoVis, lam, yaw) :
     mode \in {"reflective", "transmissive"}, d_um \in {1, 2},
     orders \in {0, 3}, tilted \in BOOLEAN, lam \in {500, 1100},
     yaw \in {1, -1}}
  \cup {FileGrating("transmissive", 2, 3, FALSE, HideOrder(1), 633, 1)}

\* a Faraday rotator 100 mm from the source and a full flat mirror behind it
FaradayAngles ==
  {Angle(1, 0), Angle(1, 1), Angle(0, 1), Angle(-1, 1), Angle(-1, 0),
   Angle(4, 3), Angle(2, -1)}
FileFaraday(phi, preset, yaw) ==
  [sources  |-> << FileSource([DefaultSourceProps EXCEPT !.polPreset = preset],
                              0, yaw, 0) >>,
   elements |-> << FileElement("faraday", 100000 * yaw, FaradayProps(phi)),
                   FileElement("mirror", 200000 * yaw, MirrorProps(ROne, FALSE)) >>]
FaradayFiles ==
  {FileFaraday(phi, preset, yaw) :
     phi \in FaradayAngles, preset \in {"Linear X", "+45"}, yaw \in {1, -1}}

\* three spectral samples (weights 1/4, 1/2, 1/4) on a plain beam splitter
\* whose R is as written in the file
FileSplitter(R) ==
  [sources  |-> << FileSource([DefaultSourceProps EXCEPT
                                 !.bandwidth_nm = 20, !.specSamples = 3,
                                 !.polPreset = "+45"], 0, 1, 0) >>,
   elements |-> << FileElement("beamSplitter", 100000,
                               BeamSplitterProps(R, FALSE, "Vertical")) >>]
SplitterFiles ==
  {FileSplitter(R) : R \in {[n |-> -1, d |-> 2], RZero, Rat(1, 10000),
                            Rat(1, 3), RHalf, ROne, [n |-> 3, d |-> 2]}}

\* two detectors 8 micrometres apart at the end of a 1 cm beam
FileShort ==
  [sources  |-> << FileSource([DefaultSourceProps EXCEPT !.forward_cm = 1],
                              0, 1, 0) >>,
   elements |-> << FileElement("multimeter", 9996, PlainProps),
                   FileElement("multimeter", 10004, PlainProps) >>]

\* a polarizing beam splitter, straight or turned, 100 mm from the source
FilePBS(polTransmit, preset, tilted) ==
  [sources  |-> << FileSource([DefaultSourceProps EXCEPT !.polPreset = preset],
                              0, 1, 0) >>,
   elements |-> << [type |-> "beamSplitter", pos |-> 100000, tilt |-> tilted,
                    props |-> BeamSplitterProps(RHalf, TRUE, polTransmit)] >>]
PBSFiles ==
  {FilePBS(pt, preset, tilted) :
     pt \in {"Vertical", "Horizontal"},
     preset \in {"Linear X", "Linear Y", "+45", "-45"},
     tilted \in BOOLEAN}

BenchFiles ==
  SpectralFiles \cup DichroicFiles \cup GratingFiles \cup FaradayFiles
  \cup SplitterFiles \cup PBSFiles \cup {FileShort}

(* ------------------------------------------------------------------ *)
(* Initial state: the page just loaded, first recompute requested     *)
(* ------------------------------------------------------------------ *)
NoRun == [cap |-> 0, R |-> [pc |-> "off"]]

Init ==
  /\ sources = << DemoSource >>
  /\ sourceCounter = 1
  /\ elements = << DemoLens, DemoMirror(TRUE) >>
  /\ ELEMENT_ID = 3
  /\ params = [maxSegments |-> 60, showPolarization |-> TRUE]
  /\ recomputePending = TRUE
  /\ frameCallbacks = 1
  /\ elementLastInfo = EmptyMap
  /\ meterLastInfo = EmptyMap
  /\ gratingLastInfo = EmptyMap
  /\ ribbonMeshes = <<>>
  /\ selectable = << Mesh(DemoLens.id), Mesh(DemoMirror(TRUE).id), Handle(1) >>
  /\ ruler = FALSE
  /\ history = DemoHistory
  /\ historyIndex = 3
  /\ isRestoringState = FALSE
  /\ pc = "idle"
  /\ queue = <<>>
  /\ completedPaths = <<>>
  /\ path = NoPath
  /\ step = 0
  /\ removeImplicitAfter = 0
  /\ hitLog = <<>>
  /\ runLo = NoRun
  /\ runHi = NoRun

(* ------------------------------------------------------------------ *)
(* Scene edits (handlers of main.js, sources.js, state.js)            *)
(* ------------------------------------------------------------------ *)
\* a doRecompute() that asks for a frame whether one is pending or not
doRecomputeEager ==
  /\ recomputePending' = TRUE
  /\ frameCallbacks' = frameCallbacks + 1

\* doRecompute(): if (_recomputePending) return; _recomputePending = true;
\* requestAnimationFrame(callback)
doRecompute ==
  /\ recomputePending' = TRUE
  /\ frameCallbacks' = IF recomputePending THEN frameCallbacks
                       ELSE frameCallbacks + 1

Occupied(z) == \E i \in 1..Len(elements) : elements[i].pos = z

RemoveAt(seq, i) == SubSeq(seq, 1, i - 1) \o SubSeq(seq, i + 1, Len(seq))

\* history and historyIndex after State.pushHistory() on the scene given
PushHistoryOf(srcs, els) ==
  LET h == pushHistory(history, historyIndex, isRestoringState,
                       captureState(srcs, els))
  IN history' = h.history /\ historyIndex' = h.historyIndex

\* drop of a palette item: spawnAt(type, pos) -> addElement(el, pos)
AddElement(type, z) ==
  /\ pc = "idle"
  /\ ELEMENT_ID <= MaxElemId
  /\ Len(history) < MaxHistoryLen
  /\ ~Occupied(z)
  /\ elements' = Append(elements,
                        MakeElement(ELEMENT_ID, type, z, FALSE, PaletteProps(type)))
  /\ ELEMENT_ID' = ELEMENT_ID + 1
  /\ selectable' = Append(selectable, Mesh(ELEMENT_ID))
  /\ doRecompute
  /\ PushHistoryOf(sources, elements')
  /\ UNCHANGED <<sources, sourceCounter, params, ribbonMeshes, ruler,
                 isRestoringState, removeImplicitAfter>>
  /\ UNCHANGED runVars
  /\ UNCHANGED capVars

\* drop of the source item: spawnAt('source', pos) -> addSource
AddSource(z) ==
  /\ pc = "idle"
  /\ sourceCounter < MaxSrcId
  /\ Len(history) < MaxHistoryLen
  /\ sources' = Append(sources, NewSource(sourceCounter + 1, z, 1))
  /\ sourceCounter' = sourceCounter + 1
  /\ selectable' = Append(selectable, Handle(sourceCounter + 1))
  /\ doRecompute
  /\ PushHistoryOf(sources', elements)
  /\ UNCHANGED <<elements, ELEMENT_ID, params, ribbonMeshes, ruler,
                 isRestoringState, removeImplicitAfter>>
  /\ UNCHANGED runVars
  /\ UNCHANGED capVars

\* deleteSelectedElement with an element selected
DeleteElement(i) ==
  /\ pc = "idle"
  /\ Len(history) < MaxHistoryLen
  /\ i \in 1..Len(elements)
  /\ elements' = RemoveAt(elements, i)
  /\ selectable' = splice(selectable, indexOf(selectable, Mesh(elements[i].id)))
  /\ doRecompute
  /\ PushHistoryOf(sources, elements')
  /\ UNCHANGED <<sources, sourceCounter, ELEMENT_ID, params, ribbonMeshes,
                 ruler, isRestoringState, removeImplicitAfter>>
  /\ UNCHANGED runVars
  /\ UNCHANGED capVars

\* deleteSelectedElement with a source selected
DeleteSource(i) ==
  /\ pc = "idle"
  /\ Len(history) < MaxHistoryLen
  /\ i \in 1..Len(sources)
  /\ sources' = RemoveAt(sources, i)
  /\ selectable' = splice(selectable, indexOf(selectable, Handle(sources[i].id)))
  /\ doRecompute
  /\ PushHistoryOf(sources', elements)
  /\ UNCHANGED <<elements, sourceCounter, ELEMENT_ID, params, ribbonMeshes,
                 ruler, isRestoringState, removeImplicitAfter>>
  /\ UNCHANGED runVars
  /\ UNCHANGED capVars

\* the Label field of the selected element, finished on text:
\* e.props.label = value; State.pushHistory()
SetLabel(i, text) ==
  /\ pc = "idle"
  /\ Len(history) < MaxHistoryLen
  /\ i \in 1..Len(elements)
  /\ elements[i].props.label # text
  /\ elements' = [elements EXCEPT ![i].props.label = text]
  /\ PushHistoryOf(sources, elements')
  /\ UNCHANGED <<sources, sourceCounter, ELEMENT_ID, params, recomputePending,
                 frameCallbacks, selectable, ruler,
                 ribbonMeshes, isRestoringState, removeImplicitAfter>>
  /\ UNCHANGED runVars
  /\ UNCHANGED capVars

\* the "Max Interactions" slider, released on v
SetMaxSegmentsWithin(v, histBound) ==
  /\ pc = "idle"
  /\ Len(history) < histBound
  /\ v # params.maxSegments
  /\ params' = [params EXCEPT !.maxSegments = v]
  /\ doRecompute
  /\ PushHistoryOf(sources, elements)
  /\ UNCHANGED <<sources, sourceCounter, elements, ELEMENT_ID, ribbonMeshes,
                 selectable, ruler, isRestoringState, removeImplicitAfter>>
  /\ UNCHANGED runVars
  /\ UNCHANGED capVars

SetMaxSegments(v) == SetMaxSegmentsWithin(v, MaxHistoryLen)

\* the "Show Polarization" box: pol.setVisible(polGroup, v); doRecompute()
SetShowPolarization(v) ==
  /\ pc = "idle"
  /\ v # params.showPolarization
  /\ params' = [params EXCEPT !.showPolarization = v]
  /\ doRecompute
  /\ UNCHANGED <<sources, sourceCounter, elements, ELEMENT_ID, ribbonMeshes,
                 selectable, ruler,
                 history, historyIndex, isRestoringState, removeImplicitAfter>>
  /\ UNCHANGED runVars
  /\ UNCHANGED capVars

\* drop of the ruler item: spawnAt('ruler', pos) -> Ruler.addRuler unless the
\* ruler exists: selectable.push(p1, p2, p3); pushHistory unless restoring
AddRuler ==
  /\ pc = "idle"
  /\ Len(history) < MaxHistoryLen
  /\ ~ruler
  /\ ruler' = TRUE
  /\ selectable' = selectable \o RulerPoints
  /\ LET h == pushHistory(history, historyIndex, isRestoringState,
                          captureScene(sources, elements, TRUE))
     IN history' = h.history /\ historyIndex' = h.historyIndex
  /\ UNCHANGED <<sources, sourceCounter, elements, ELEMENT_ID, params,
                 recomputePending, frameCallbacks, ribbonMeshes,
                 isRestoringState, removeImplicitAfter>>
  /\ UNCHANGED runVars
  /\ UNCHANGED capVars

\* Delete pressed with a ruler point selected: Ruler.removeRuler
RemoveRuler ==
  /\ pc = "idle"
  /\ Len(history) < MaxHistoryLen
  /\ ruler
  /\ ruler' = FALSE
  /\ selectable' = SpliceFound(selectable, RulerPoints)
  /\ LET h == pushHistory(history, historyIndex, isRestoringState,
                          captureScene(sources, elements, FALSE))
     IN history' = h.history /\ historyIndex' = h.historyIndex
  /\ UNCHANGED <<sources, sourceCounter, elements, ELEMENT_ID, params,
                 recomputePending, frameCallbacks, ribbonMeshes,
                 isRestoringState, removeImplicitAfter>>
  /\ UNCHANGED runVars
  /\ UNCHANGED capVars
\* history and historyIndex after restoreState(state) entered with
\* historyIndex = idx: addSource and addElement call pushHistory unless
\* State.isRestoring(), and isRestoringState is set on entry
RestoredHistory(state, idx) ==
  PushAll(history, idx, TRUE, RestoreSnaps(state, sourceCounter, ELEMENT_ID))

\* restoreState(state): the scene is rebuilt from the state
RestoreSceneWithin(state, elemBound, srcBound) ==
  /\ sourceCounter + Len(state.sources) <= srcBound
  /\ ELEMENT_ID + Len(state.elements) <= elemBound + 1
  /\ isRestoringState' = TRUE
  /\ sources' = RestoredSources(state, sourceCounter)
  /\ sourceCounter' = sourceCounter + Len(state.sources)
  /\ elements' = RestoredElements(state, ELEMENT_ID)
  /\ ELEMENT_ID' = ELEMENT_ID + Len(state.elements)
  /\ ruler' = RulerOf(state)
  /\ LET cleared == SpliceAll(SpliceAll(selectable, Handles(sources)),
                              Meshes(elements))
         rebuilt == cleared \o Handles(sources') \o Meshes(elements')
     IN selectable' = IF ruler /\ ~RulerOf(state)
                      THEN SpliceFound(rebuilt, RulerPoints)
                      ELSE IF ~ruler /\ RulerOf(state)
                      THEN rebuilt \o RulerPoints
                      ELSE rebuilt
  /\ doRecompute
  /\ UNCHANGED <<params, ribbonMeshes, removeImplicitAfter>>
  /\ UNCHANGED runVars
  /\ UNCHANGED capVars

RestoreScene(state, elemBound) == RestoreSceneWithin(state, elemBound, MaxSrcId)

\* a file picked in the Load dialog: restoreState(state); pushHistory()
\* (pushHistory returns at once: isRestoringState is still set)
LoadState(file, elemBound) ==
  /\ pc = "idle"
  /\ RestoreScene(file, elemBound)
  /\ LET r == RestoredHistory(file, historyIndex)
         h == pushHistory(r.history, r.historyIndex, TRUE,
                          captureState(sources', elements'))
     IN history' = h.history /\ historyIndex' = h.historyIndex

\* historyIndex--; restoreState(history[historyIndex])
undoWithin(elemBound, srcBound) ==
  /\ pc = "idle"
  /\ historyIndex > 0
  /\ RestoreSceneWithin(history[historyIndex], elemBound, srcBound)
  /\ LET r == RestoredHistory(history[historyIndex], historyIndex - 1)
     IN history' = r.history /\ historyIndex' = r.historyIndex
undo == undoWithin(MaxElemId, MaxSrcId)

\* historyIndex++; restoreState(history[historyIndex])
redoWithin(elemBound, srcBound) ==
  /\ pc = "idle"
  /\ historyIndex < Len(history) - 1
  /\ RestoreSceneWithin(history[historyIndex + 2], elemBound, srcBound)
  /\ LET r == RestoredHistory(history[historyIndex + 2], historyIndex + 1)
     IN history' = r.history /\ historyIndex' = r.historyIndex
redo == redoWithin(MaxElemId, MaxSrcId)

\* setTimeout(() => { isRestoringState = false; }, 50)
RestoreTimer ==
  /\ pc = "idle"
  /\ isRestoringState
  /\ isRestoringState' = FALSE
  /\ UNCHANGED <<sources, sourceCounter, elements, ELEMENT_ID, params,
                 recomputePending, frameCallbacks, ribbonMeshes, selectable,
                 ruler, history, historyIndex, removeImplicitAfter>>
  /\ UNCHANGED runVars
  /\ UNCHANGED capVars

(* ------------------------------------------------------------------ *)
(* recompute, run by the animation frame doRecompute asked for        *)
(* ------------------------------------------------------------------ *)
\* the running traversal as a record
Cur ==
  [pc |-> pc, queue |-> queue, completedPaths |-> completedPaths,
   path |-> path, step |-> step, elementLastInfo |-> elementLastInfo,
   meterLastInfo |-> meterLastInfo, gratingLastInfo |-> gratingLastInfo,
   hitLog |-> hitLog]

Apply(R) ==
  /\ pc' = R.pc
  /\ queue' = R.queue
  /\ completedPaths' = R.completedPaths
  /\ path' = R.path
  /\ step' = R.step
  /\ elementLastInfo' = R.elementLastInfo
  /\ meterLastInfo' = R.meterLastInfo
  /\ gratingLastInfo' = R.gratingLastInfo
  /\ hitLog' = R.hitLog

\* the source recompute adds when the bench has none
ImplicitSource(id) == NewSource(id, -400, 1)

\* for (s of activeSources) { clampToPlaneXZ(s.group); syncSourceW0ZR(s); }
Prepared(srcs) ==
  [i \in 1..Len(srcs) |-> syncSourceW0ZR(clampToPlaneXZ(srcs[i]))]

\* the state of the loop when it is entered: readouts of elements cleared,
\* seeds queued
Entered(srcs) ==
  [pc |-> "loop", queue |-> Seeds(srcs), completedPaths |-> <<>>,
   path |-> NoPath, step |-> 0, elementLastInfo |-> EmptyMap,
   meterLastInfo |-> meterLastInfo, gratingLastInfo |-> gratingLastInfo,
   hitLog |-> <<>>]

\* the frame callback up to the loop: _recomputePending = false, readouts
\* and ribbons cleared, implicit source, clamp and sync, seeding
RecomputeStart ==
  /\ pc = "idle"
  /\ frameCallbacks > 0
  /\ sources # <<>> \/ sourceCounter < MaxSrcId
  /\ LET implicit == (sources = <<>>)
         active   == IF implicit THEN << ImplicitSource(sourceCounter + 1) >>
                     ELSE sources
     IN /\ sources' = Prepared(active)
        /\ sourceCounter' = IF implicit THEN sourceCounter + 1 ELSE sourceCounter
        \* sources.length === 0 ? activeSources[0] : null, read after
        \* addSource has pushed the new source onto sources: null
        /\ removeImplicitAfter' = IF sources' = <<>> THEN sourceCounter + 1 ELSE 0
        \* addSource: doRecompute(), pushHistory() unless restoring
        /\ selectable' = IF implicit
                         THEN Append(selectable, Handle(sourceCounter + 1))
                         ELSE selectable
        /\ recomputePending' = implicit
        /\ frameCallbacks' = frameCallbacks - 1 + (IF implicit THEN 1 ELSE 0)
        /\ IF implicit THEN PushHistoryOf(active, elements)
           ELSE UNCHANGED <<history, historyIndex>>
        /\ \E R \in {Entered(sources')} : Apply(R)
  /\ ribbonMeshes' = <<>>
  /\ UNCHANGED <<elements, ELEMENT_ID, params, ruler, isRestoringState>>
  /\ UNCHANGED capVars

\* the loop condition holds: queue.shift()
LoopDequeue ==
  /\ pc = "loop"
  /\ LoopCond(Cur, MAX_BEAMS)
  /\ \E R \in {RunStep(Cur, elements, params.maxSegments, MAX_BEAMS)} : Apply(R)
  /\ UNCHANGED sceneVars
  /\ UNCHANGED capVars

\* the loop condition fails: the loop is left
LoopEnd ==
  /\ pc = "loop"
  /\ ~LoopCond(Cur, MAX_BEAMS)
  /\ \E R \in {RunStep(Cur, elements, params.maxSegments, MAX_BEAMS)} : Apply(R)
  /\ UNCHANGED sceneVars
  /\ UNCHANGED capVars

\* one pass of the step loop of the dequeued path (or its end)
MarchStep ==
  /\ pc = "march"
  /\ \E R \in {RunStep(Cur, elements, params.maxSegments, MAX_BEAMS)} : Apply(R)
  /\ UNCHANGED sceneVars
  /\ UNCHANGED capVars

\* completedPaths.push(path)
PushPath ==
  /\ pc = "push"
  /\ \E R \in {RunStep(Cur, elements, params.maxSegments, MAX_BEAMS)} : Apply(R)
  /\ UNCHANGED sceneVars
  /\ UNCHANGED capVars

\* after the loop: one ribbon per completed path; if (removeImplicitAfter)
\* removeSourceByGroup(removeImplicitAfter.group)
Finish ==
  /\ pc = "draw"
  /\ ribbonMeshes' = [i \in 1..Len(completedPaths) |-> completedPaths[i].lam]
  /\ sources' = SelectSeq(sources, LAMBDA s : s.id # removeImplicitAfter)
  /\ selectable' = IF \E j \in 1..Len(sources) : sources[j].id = removeImplicitAfter
                   THEN splice(selectable,
                               indexOf(selectable, Handle(removeImplicitAfter)))
                   ELSE selectable
  /\ removeImplicitAfter' = 0
  /\ pc' = "idle"
  /\ queue' = <<>>
  /\ completedPaths' = <<>>
  /\ path' = NoPath
  /\ step' = 0
  /\ UNCHANGED <<sourceCounter, elements, ELEMENT_ID, params, recomputePending,
                 frameCallbacks, ruler,
                 history, historyIndex, isRestoringState>>
  /\ UNCHANGED <<elementLastInfo, meterLastInfo, gratingLastInfo, hitLog>>
  /\ UNCHANGED capVars

\* recompute throws: the exception leaves the frame callback, the locals of
\* recompute are gone, what it had written so far stays
RecomputeThrows ==
  /\ pc \in {"loop", "march", "push", "draw"}
  /\ pc' = "idle"
  /\ queue' = <<>>
  /\ completedPaths' = <<>>
  /\ path' = NoPath
  /\ step' = 0
  /\ removeImplicitAfter' = 0
  /\ UNCHANGED <<sources, sourceCounter, elements, ELEMENT_ID, params,
                 recomputePending, frameCallbacks, ribbonMeshes, selectable,
                 ruler, history, historyIndex, isRestoringState>>
  /\ UNCHANGED <<elementLastInfo, meterLastInfo, gratingLastInfo, hitLog>>
  /\ UNCHANGED capVars

Edit ==
  \/ \E type \in PaletteTypes, z \in ElementSlots : AddElement(type, z)
  \/ \E z \in SourceSlots : AddSource(z)
  \/ \E i \in 1..MaxElemId : DeleteElement(i)
  \/ \E i \in 1..MaxSrcId : DeleteSource(i)
  \/ \E file \in Files : LoadState(file, MaxElemId)
  \/ undo
  \/ redo
  \/ RestoreTimer

Run ==
  \/ RecomputeStart
  \/ LoopDequeue
  \/ LoopEnd
  \/ MarchStep
  \/ PushPath
  \/ Finish

Next == Edit \/ Run

Spec == Init /\ [][Next]_vars

\* the history walked up and down: edits that create nothing, and undo and
\* redo with ids enough for several restores in a row
NextHistory ==
  \/ \E i \in 1..MaxElemId : DeleteElement(i)
  \/ \E i \in 1..MaxElemId, text \in Labels : SetLabel(i, text)
  \/ undoWithin(MaxUndoElemId, MaxUndoSrcId)
  \/ redoWithin(MaxUndoElemId, MaxUndoSrcId)
  \/ RestoreTimer
  \/ Run

SpecHistory == Init /\ [][NextHistory]_vars

\* a saved bench that has the ruler and nothing else
FileRuler == [sources |-> <<>>, elements |-> <<>>, ruler |-> TRUE]
PickFiles == {FileEmpty, FileRuler}
PickTypes == {"mirror"}

\* the pick list under every edit that adds to it or removes from it
\* (duplicateSelectedElement adds through addElement and addSource)
NextPick ==
  \/ \E type \in PickTypes, z \in ElementSlots : AddElement(type, z)
  \/ \E z \in SourceSlots : AddSource(z)
  \/ \E i \in 1..MaxElemId : DeleteElement(i)
  \/ \E i \in 1..MaxSrcId : DeleteSource(i)
  \/ AddRuler
  \/ RemoveRuler
  \/ \E file \in PickFiles : LoadState(file, MaxPickElemId)
  \/ undoWithin(MaxPickElemId, MaxPickSrcId)
  \/ redoWithin(MaxPickElemId, MaxPickSrcId)
  \/ RestoreTimer
  \/ Run

SpecPick == Init /\ [][NextPick]_vars
SliderValues == {4, 60}

\* Requests for a recompute and the frames that serve them: the display box
\* toggled, the source deleted (the recompute then adds one and asks for a
\* frame itself), a recompute that throws; the browser runs a requested
\* frame callback, and the callback runs to its end or to its exception
NextFrame ==
  \/ \E v \in BOOLEAN : SetShowPolarization(v)
  \/ \E v \in SliderValues : SetMaxSegments(v)
  \/ sourceCounter < MaxSrcId /\ \E i \in 1..MaxSrcId : DeleteSource(i)
  \/ RecomputeThrows
  \/ Run

SpecFrame == Init /\ [][NextFrame]_vars /\ WF_vars(Run)

\* the history filled to MAX_HISTORY and beyond: the slider moved again and
\* again between two values, with a few undos and redos
NextFill ==
  \/ \E v \in SliderValues : SetMaxSegmentsWithin(v, MAX_HISTORY + 1)
  \/ undoWithin(MaxFillElemId, MaxFillSrcId)
  \/ redoWithin(MaxFillElemId, MaxFillSrcId)
  \/ RestoreTimer
  \/ Run

SpecFill == Init /\ [][NextFill]_vars

(* ------------------------------------------------------------------ *)
(* The large benches: a cavity that fills the path cap, a long line   *)
(* ------------------------------------------------------------------ *)
HeavyFiles == {FileCavity(150, 0), FileLong, FileSeeds}

NextHeavy ==
  \/ \E file \in HeavyFiles : LoadState(file, MaxHeavyElemId)
  \/ Run

SpecHeavy == Init /\ [][NextHeavy]_vars

(* ------------------------------------------------------------------ *)
(* The single-purpose benches, each loaded and traversed              *)
(* ------------------------------------------------------------------ *)
NextFiles ==
  \/ \E file \in BenchFiles : LoadState(file, MaxElemId)
  \/ Run

SpecFiles == Init /\ [][NextFiles]_vars

\* Short benches for the polarization markers: a detector, a polarizer, a
\* half splitter and a full mirror within a few marker spacings, the beam
\* sent both ways
FilePol(z1, z2) ==
  [sources  |-> << FileSource([DefaultSourceProps EXCEPT
                                 !.forward_cm = 3, !.backward_cm = 1,
                                 !.polPreset = "+45"], 0, 1, 0) >>,
   elements |-> << FileElement("multimeter", 601, PlainProps),
                   FileElement("polarizer", z1, PolarizerProps(0)),
                   FileElement("beamSplitter", z2,
                               BeamSplitterProps(RHalf, FALSE, "Vertical")),
                   FileElement("mirror", 24000, MirrorProps(ROne, FALSE)) >>]
PolFiles == {FilePol(z1, z2) : z1 \in {1201, 2501, 4000}, z2 \in {7501, 13000}}

NextPol ==
  \/ \E file \in PolFiles : LoadState(file, MaxHeavyElemId)
  \/ \E v \in BOOLEAN : SetShowPolarization(v)
  \/ Run

SpecPol == Init /\ [][NextPol]_vars

\* The benches whose traversal is ended by the path cap and by the step cap.
TermFiles == {FileCavity(150, 0), FileLong}

NextTerm ==
  \/ \E file \in TermFiles : LoadState(file, MaxHeavyElemId)
  \/ Run

\* recompute is one synchronous call: once started it runs to its end
SpecTerm == Init /\ [][NextTerm]_vars /\ WF_vars(Run)

(* ------------------------------------------------------------------ *)
(* The same bench traversed under two path caps, side by side         *)
(* ------------------------------------------------------------------ *)
CapFiles == {FileCavity(60, 0), FileCavity(40, 40)}
CapValues == {1, 2, 3, 5, 9, 600}

Shadow(srcs, capv) == [cap |-> capv, R |-> Entered(Prepared(srcs))]

LoadForCaps(file) ==
  /\ runLo = NoRun
  /\ LoadState(file, MaxHeavyElemId)

\* after a recompute of the bench: the two traversals are set up
CapStart(lo, hi) ==
  /\ pc = "idle"
  /\ ~recomputePending
  /\ runLo = NoRun
  /\ lo < hi
  /\ runLo' = Shadow(sources, lo)
  /\ runHi' = Shadow(sources, hi)
  /\ UNCHANGED sceneVars
  /\ UNCHANGED runVars

\* both traversals take their next step (one that is over stays as it is)
CapStep ==
  /\ runLo # NoRun
  /\ runLo.R.pc # "draw" \/ runHi.R.pc # "draw"
  /\ runLo' = [runLo EXCEPT !.R = RunStep(@, elements, params.maxSegments, runLo.cap)]
  /\ runHi' = [runHi EXCEPT !.R = RunStep(@, elements, params.maxSegments, runHi.cap)]
  /\ UNCHANGED sceneVars
  /\ UNCHANGED runVars

NextCap ==
  \/ \E file \in CapFiles : LoadForCaps(file)
  \/ RestoreTimer
  \/ Run
  \/ \E lo \in CapValues, hi \in CapValues : CapStart(lo, hi)
  \/ CapStep

SpecCap == Init /\ [][NextCap]_vars

(* ------------------------------------------------------------------ *)
(* Properties                                                         *)
(* ------------------------------------------------------------------ *)
IsPrefix(a, b) == Len(a) <= Len(b) /\ SubSeq(b, 1, Len(a)) = a

\* the paths dequeued so far in the running recompute
Dequeued == Len(completedPaths) + (IF pc \in {"march", "push"} THEN 1 ELSE 0)

C1_Iteration ==
  /\ (pc = "loop" /\ pc' = "march") =>
        /\ Len(completedPaths) + Len(queue) < MAX_BEAMS
        /\ queue # <<>>
        /\ path' = Head(queue)
        /\ queue' = Tail(queue)
        /\ completedPaths' = completedPaths
  /\ pc = "march" => (completedPaths' = completedPaths /\ pc' \in {"march", "push"})
  /\ pc = "push" => (completedPaths' = Append(completedPaths, path) /\ pc' = "loop")

\* C1: the traversal terminates. Every iteration of the outer loop takes one
\* path off the queue and adds exactly that one path to the completed list;
\* a path is dequeued only while completed + queued < MAX_BEAMS, so at most
\* MAX_BEAMS - 1 paths are dequeued; a dequeued path takes at most
\* maxSegments steps; a recompute that has started reaches its end.
C1_Terminates ==
  /\ [][C1_Iteration]_vars
  /\ [](Dequeued <= MAX_BEAMS - 1)
  /\ [](step <= params.maxSegments)
  /\ (pc # "idle") ~> (pc = "idle")

\* a path stopped by the step cap with length left, in a recompute of many paths
C1_Witness ==
  /\ pc = "push"
  /\ step = params.maxSegments
  /\ path.traveled < path.maxLen

\* C2: the completed list under a path cap C is a prefix of the completed
\* list of the same bench under any larger cap C'.
C2_Prefix ==
  (runLo # NoRun /\ runLo.R.pc = "draw" /\ runHi.R.pc = "draw") =>
     IsPrefix(runLo.R.completedPaths, runHi.R.completedPaths)

\* the smaller cap cut the traversal short, the larger one went further
C2_Witness ==
  /\ runLo # NoRun
  /\ runLo.R.pc = "draw"
  /\ runHi.R.pc = "draw"
  /\ runLo.R.queue # <<>>
  /\ runLo.R.completedPaths # <<>>
  /\ Len(runLo.R.completedPaths) < Len(runHi.R.completedPaths)

\* a recompute has run on the scene as it is
Recomputed == pc = "idle" /\ ~recomputePending

\* a beam block stands on the axis between the source s and the element d
BlockBetween(s, d) ==
  \E k \in 1..Len(elements) :
     /\ elements[k].type = "beamBlock"
     /\ \/ s.pos < elements[k].pos /\ elements[k].pos < d.pos
        \/ d.pos < elements[k].pos /\ elements[k].pos < s.pos

\* C3: if a beam block lies on the only path from every source to a
\* detector, then after a recompute of that scene meterLastInfo holds no
\* entry for the detector, whatever edits and recomputes came before.
C3_BlockedDetectorHasNoReading ==
  (Recomputed /\ sources # <<>>) =>
     \A i \in 1..Len(elements) :
        ( /\ elements[i].type = "multimeter"
          /\ \A j \in 1..Len(sources) : BlockBetween(sources[j], elements[i]) )
        => ~Has(meterLastInfo, elements[i].id)

Total == Len(completedPaths) + Len(queue)

\* C4 as stated: every path placed on the queue is dequeued, traversed and
\* finalized before recompute returns, so the loop is left with an empty queue.
C4_QueueDrained == pc = "draw" => queue = <<>>

\* C4: every path placed on the queue is dequeued, traversed and finalized
\* before recompute returns, unless the loop is left because completed plus
\* queued has reached MAX_BEAMS; the paths then still queued are dropped, and
\* the ribbons are built from the completed paths alone.
C4_DrainedOrCapped ==
  /\ [](pc = "draw" => (queue = <<>> \/ Total >= MAX_BEAMS))
  /\ [][pc = "draw" => Len(ribbonMeshes') = Len(completedPaths)]_vars

\* the loop was left on the cap with paths still queued
C4_Witness == pc = "draw" /\ queue # <<>> /\ Total >= MAX_BEAMS

\* C5 as stated: queued plus completed paths never exceed MAX_BEAMS.
C5_TotalWithinCap == Total <= MAX_BEAMS

\* C5: a path is dequeued only while completed plus queued is below
\* MAX_BEAMS, so the completed paths never exceed MAX_BEAMS - 1; seeds and
\* branches are pushed without a look at the cap, so completed plus queued
\* can pass MAX_BEAMS; the loop is then left with the queue as it is.
C5_DequeueWithinCap ==
  /\ [][(pc = "loop" /\ pc' = "march") => Total < MAX_BEAMS]_vars
  /\ [](Len(completedPaths) <= MAX_BEAMS - 1)
  /\ [][(pc = "loop" /\ Total >= MAX_BEAMS) =>
          (pc' = "draw" /\ queue' = queue /\ completedPaths' = completedPaths)]_vars

\* the branches of the last interaction took the total past the cap
C5_Witness == pc = "loop" /\ Total > MAX_BEAMS

ForkTypes == {"beamSplitter", "mirror", "grating"}

\* the step taken is an interaction, logged as the last entry of hitLog'
Logged == pc = "march" /\ Len(hitLog') = Len(hitLog) + 1
LastLogged == hitLog'[Len(hitLog')]

\* relative amplitude at least 0.02, said of the relative intensity
Strong(I) == I.n * 2500 >= I.d

C6_Fork ==
  /\ (Logged /\ LastLogged.type \in ForkTypes) =>
       LET kept == SelectSeq(LastLogged.outs, Strong)
       IN /\ Len(queue') = Len(queue) + Len(kept)
          /\ SubSeq(queue', 1, Len(queue)) = queue
          /\ \A k \in 1..Len(kept) :
                /\ jNorm2(queue'[Len(queue) + k].J) = kept[k]
                /\ queue'[Len(queue) + k].lastHit = LastLogged.el
  /\ (pc = "march" /\ ~(Logged /\ LastLogged.type \in ForkTypes)) => queue' = queue

InCompleted(p) == \E i \in 1..Len(completedPaths) : completedPaths[i] = p

\* C7 as stated: a path that struck a beam block is not added to the
\* completed list.
C7_BlockedNotCompleted ==
  pc # "idle" =>
    \A k \in 1..Len(hitLog) :
       hitLog[k].type = "beamBlock" => ~InCompleted(hitLog[k].arrived)

\* C7: a path that strikes a beam block takes no further step and spawns no
\* branch; as it arrived at the block it is added to the completed list,
\* from which its ribbon up to the block is drawn.
C7_BlockedEndsCompleted ==
  /\ [][(Logged /\ LastLogged.type = "beamBlock") =>
          /\ pc' = "push"
          /\ path' = LastLogged.arrived
          /\ LastLogged.outs = <<>>
          /\ queue' = queue
          /\ completedPaths' = completedPaths]_vars
  /\ [](pc # "idle" =>
          \A k \in 1..Len(hitLog) :
             hitLog[k].type = "beamBlock" =>
                \/ InCompleted(hitLog[k].arrived)
                \/ pc = "push" /\ k = Len(hitLog) /\ path = hitLog[k].arrived)

\* a path that ended on a beam block is in the completed list
C7_Witness ==
  /\ pc = "loop"
  /\ \E k \in 1..Len(hitLog) :
        hitLog[k].type = "beamBlock" /\ InCompleted(hitLog[k].arrived)

\* the hits of the last recompute that wrote a readout of element id
ReadoutHits(id) ==
  SelectSeq(hitLog, LAMBDA e : e.el = id /\ e.outs # <<>>
                               /\ e.type \notin {"multimeter", "beamBlock"})

RECURSIVE MaxOf(_)
MaxOf(outs) ==
  IF Len(outs) = 1 THEN outs[1] ELSE RMax(outs[1], MaxOf(Tail(outs)))

RECURSIVE Flat(_)
Flat(es) == IF es = <<>> THEN <<>> ELSE Head(es).outs \o Flat(Tail(es))

C8_AllRead ==
  /\ \A k \in 1..Len(hitLog) :
        (hitLog[k].outs # <<>> /\ hitLog[k].type \notin {"multimeter", "beamBlock"})
           => Has(elementLastInfo, hitLog[k].el)
  /\ \A id \in DOMAIN elementLastInfo : ReadoutHits(id) # <<>>

\* C8 as stated: after a recompute the readout of every struck element has
\* the largest relative intensity of all the output branches made at that
\* element during the recompute.
C8_ReadoutIsMaxOfAll ==
  Recomputed =>
    /\ C8_AllRead
    /\ \A id \in DOMAIN elementLastInfo :
          elementLastInfo[id].Irel = MaxOf(Flat(ReadoutHits(id)))

\* C8: the readout of a struck element is written at every hit that makes an
\* output branch and the last hit wins: its relative intensity is the largest
\* among the output branches of the last such hit at that element, not among
\* those of all its hits (detectors are read into meterLastInfo, beam blocks
\* are not read).
C8_ReadoutIsMaxOfLastHit ==
  /\ C8_AllRead
  /\ \A id \in DOMAIN elementLastInfo :
        LET es == ReadoutHits(id)
        IN elementLastInfo[id].Irel = MaxOf(es[Len(es)].outs)

\* an element whose readout is weaker than a branch made at it earlier in
\* the recompute
C8_Witness ==
  /\ Recomputed
  /\ \E id \in DOMAIN elementLastInfo :
        RLess(elementLastInfo[id].Irel, MaxOf(Flat(ReadoutHits(id))))

\* a step of a recompute: from the frame callback's start to its end
RecomputeStep == pc # "idle" \/ pc' # "idle"

\* the properties of a source without its derived waist / Rayleigh field
Primary(s) ==
  IF s.lastEdited = "w0" THEN [s.props EXCEPT !.rayleigh_mm = 0]
  ELSE [s.props EXCEPT !.waist_w0_um = 0]

C10_DetectorPassThrough ==
  [][(Logged /\ LastLogged.type = "multimeter") =>
       LET seen == meterLastInfo'[LastLogged.el]
           L    == (seen.pos.z - path.pos.z) * path.dir.z
       IN /\ path'.q = seen.q
          /\ path'.q = freeSpace(path.q, L)
          /\ path'.J = path.J
          /\ path'.dir = path.dir
          /\ path'.lam = path.lam
          /\ path'.traveled = path.traveled + L
          /\ path'.maxLen = path.maxLen
          /\ path'.pos.z = seen.pos.z + path.dir.z * NUDGE
          /\ pc' = "march"
          /\ step' = step + 1
          /\ queue' = queue
          /\ completedPaths' = completedPaths]_vars

\* a path has just crossed a detector and marches on
C10_Witness ==
  /\ pc = "march"
  /\ step >= 1
  /\ hitLog # <<>>
  /\ hitLog[Len(hitLog)].type = "multimeter"
  /\ path.lastHit = hitLog[Len(hitLog)].el
  /\ Has(meterLastInfo, path.lastHit)

RAdd(a, b) == Rat(a.n * b.d + b.n * a.d, a.d * b.d)

\* the element of the bench with the id given
ElementOf(id) == elements[CHOOSE i \in 1..Len(elements) : elements[i].id = id]

\* R as the claim clamps it to [0, 1]
ClampedR(el) ==
  IF el.props.R.n < 0 THEN RZero
  ELSE IF RLess(ROne, el.props.R) THEN ROne ELSE el.props.R

\* C11: at a non-polarizing beam splitter of reflectance R (clamped to
\* [0, 1]) the transmitted branch has (1 - R) times and the reflected branch
\* R times the relative intensity of the incoming path, the two add up to
\* the incoming intensity, and for R = 1/2 each has half of it.
C11_SplitterShares ==
  [][(Logged /\ LastLogged.type = "beamSplitter"
         /\ ~ElementOf(LastLogged.el).props.polarizing) =>
       LET R    == ClampedR(ElementOf(LastLogged.el))
           Iin  == jNorm2(path.J)
           outs == LastLogged.outs
       IN /\ Len(outs) = 2
          /\ outs[1] = RMul(RSub(ROne, R), Iin)
          /\ outs[2] = RMul(R, Iin)
          /\ RAdd(outs[1], outs[2]) = Iin
          /\ R = RHalf => (outs[1] = RMul(RHalf, Iin) /\ outs[2] = outs[1])]_vars

\* a spectral sample weaker than the whole beam has just been split unevenly
C11_Witness ==
  /\ pc = "push"
  /\ hitLog # <<>>
  /\ LET e == hitLog[Len(hitLog)]
     IN /\ e.type = "beamSplitter"
        /\ path.pos.z = ElementOf(e.el).pos - path.dir.z * HALF_THICK
        /\ ~ElementOf(e.el).props.polarizing
        /\ RLess(jNorm2(path.J), ROne)
        /\ RLess(RZero, e.outs[2])
        /\ RLess(e.outs[2], e.outs[1])

\* the number of seeds the claim gives a source: S * D
SeedCount(s) ==
  LET N == IF s.props.specSamples < 1 THEN 1 ELSE s.props.specSamples
      S == IF s.props.bandwidth_nm <= 0 \/ N = 1 THEN 1
           ELSE IF N % 2 = 1 THEN N ELSE N + 1
      D == (IF s.props.forward_cm > 0 THEN 1 ELSE 0)
           + (IF s.props.backward_cm > 0 THEN 1 ELSE 0)
  IN S * D

RECURSIVE SeedTotal(_)
SeedTotal(srcs) ==
  IF srcs = <<>> THEN 0 ELSE SeedCount(Head(srcs)) + SeedTotal(Tail(srcs))

\* C12: recompute seeds S * D ray-paths per source: D counts the directions
\* of positive length (forward, backward), S is 1 when the bandwidth is not
\* positive or the sample count N (at least 1) is 1, else N if N is odd and
\* N + 1 if N is even; no seed has a length budget of 0.
C12_SeedCount ==
  [][(pc = "idle" /\ pc' = "loop") =>
       /\ Len(queue') = SeedTotal(sources')
       /\ \A i \in 1..Len(queue') : queue'[i].maxLen > 0]_vars

\* a broadband source of an even sample count, seeded both ways
C12_Witness ==
  /\ pc = "loop"
  /\ completedPaths = <<>>
  /\ Len(sources) = 1
  /\ sources[1].props.bandwidth_nm > 0
  /\ sources[1].props.specSamples = 4
  /\ sources[1].props.backward_cm > 0
  /\ Len(queue) = 10

\* C13: a dichroic mirror reflects the whole beam when the wavelength lies in
\* its reflect band (bounds included, also when it lies in the transmit band
\* as well) and transmits the whole beam otherwise, whatever its scalar
\* reflectance; each hit makes exactly one branch.
C13_Dichroic ==
  [][(Logged /\ LastLogged.type = "mirror"
         /\ ElementOf(LastLogged.el).props.dichroic) =>
       LET band   == ElementOf(LastLogged.el).props.reflBand_nm
           inRefl == band.min <= path.lam /\ path.lam <= band.max
           out    == queue'[Len(queue')]
       IN /\ LastLogged.outs = << jNorm2(path.J) >>
          /\ Len(queue') = Len(queue) + 1
          /\ out.lastHit = LastLogged.el
          /\ out.lam = path.lam
          /\ out.dir = IF inRefl THEN AxisDir(-path.dir.z) ELSE path.dir]_vars

\* a wavelength on the bound shared by the two bands has just been reflected
C13_Witness ==
  /\ pc = "push"
  /\ hitLog # <<>>
  /\ queue # <<>>
  /\ LET e  == hitLog[Len(hitLog)]
         el == ElementOf(e.el)
     IN /\ e.type = "mirror"
        /\ el.props.dichroic
        /\ path.lam = el.props.reflBand_nm.max
        /\ path.lam = el.props.transBand_nm.min
        /\ path.pos.z = el.pos - path.dir.z * HALF_THICK
        /\ queue[Len(queue)].lastHit = el.id
        /\ queue[Len(queue)].dir.z = -path.dir.z

\* L <= Rr * sqrt(2)
LeqRootTwo(L, Rr) ==
  IF Rr >= 0 THEN L <= 0 \/ L * L <= 2 * Rr * Rr
  ELSE L <= 0 /\ L * L >= 2 * Rr * Rr

\* |sin(alpha) - a / b| <= 1 for sin(alpha) = sg * sqrt(1/2), sg in {-1, 0, 1},
\* on the squares: (a/b)^2 - 1/2 <= sg * sqrt(2) * (a/b)
WithinOne(sg, a, b) ==
  IF sg = 0 \/ a = 0 THEN a * a <= b * b
  ELSE LET g  == GCD(Abs(a), b)
           ar == a \div g
           br == b \div g
       IN LeqRootTwo(2 * ar * ar - br * br, 2 * sg * ar * br)

\* C14: a grating of order limit M = orders (at least 0) produces order m if
\* and only if -M <= m <= M and |sin(alpha) - m lambda / d| <= 1; at normal
\* incidence that is |m lambda / d| <= 1; the order 0 is always produced.
C14_GratingOrders ==
  [][(Logged /\ LastLogged.type = "grating") =>
       LET el   == ElementOf(LastLogged.el)
           M    == IF el.props.orders < 0 THEN 0 ELSE el.props.orders
           sg   == IF el.tilt THEN -path.dir.z ELSE 0
           got  == gratingLastInfo'[el.id].entries
           gotS == {got[k] : k \in 1..Len(got)}
       IN /\ gotS = {m \in (-M)..M :
                       WithinOne(sg, m * path.lam, el.props.d_um * 1000)}
          /\ \A k \in 1..(Len(got) - 1) : got[k] < got[k + 1]
          /\ 0 \in gotS
          /\ ~el.tilt =>
                \A m \in (-M)..M :
                   m \in gotS <=> Abs(m) * path.lam <= el.props.d_um * 1000
          /\ Len(LastLogged.outs)
               = Cardinality({m \in gotS : ~Hidden(el, m)})]_vars

\* a grating met at 45 degrees has just produced an order without producing
\* the opposite one
C14_Witness ==
  /\ pc = "push"
  /\ hitLog # <<>>
  /\ LET e  == hitLog[Len(hitLog)]
     IN /\ e.type = "grating"
        /\ ElementOf(e.el).tilt
        /\ Has(gratingLastInfo, e.el)
        /\ LET got == gratingLastInfo[e.el].entries
           IN \E k \in 1..Len(got) :
                 \A j \in 1..Len(got) : got[j] # -got[k]

\* the Jones vector a flat mirror sends back at normal incidence (second
\* component negated), and the opposite vector
MirrorJ(J) == Jones(J.x, -J.y, J.n, J.d)
NegJ(J) == Jones(-J.x, -J.y, J.n, J.d)

\* the pass logged is the way back through a Faraday rotator of a beam that
\* went through it, met a full flat mirror head-on and met nothing else
FaradayReturn ==
  /\ Logged
  /\ LastLogged.type = "faraday"
  /\ Len(hitLog') = 3
  /\ hitLog[1].el = LastLogged.el
  /\ hitLog[2].type = "mirror"
  /\ path.lastHit = hitLog[2].el
  /\ ~ElementOf(hitLog[2].el).tilt
  /\ ElementOf(hitLog[2].el).props.refl = ROne
  /\ Len(sources) = 1
  /\ sources[1].props.bandwidth_nm = 0

\* C15: a Faraday rotator applies Rtheta(-phi) to a ray that runs along its
\* +Z normal and Rtheta(+phi) to one that runs against it; after a pass, a
\* reflection at a flat mirror at normal incidence and the pass back, the
\* Jones vector is the mirror-reflected input turned by 2 phi, and it is
\* neither the mirror-reflected input nor its opposite unless phi is a
\* multiple of 90 degrees.
C15_FaradayNonReciprocal ==
  [][/\ (Logged /\ LastLogged.type = "faraday") =>
          LET phi == ElementOf(LastLogged.el).props.phiDeg
              sgn == IF path.dir.z >= 0 THEN 1 ELSE -1
          IN path'.J = Jones(phi.c * path.J.x - sgn * phi.s * path.J.y,
                             sgn * phi.s * path.J.x + phi.c * path.J.y,
                             path.J.n,
                             path.J.d * (phi.c * phi.c + phi.s * phi.s))
     /\ FaradayReturn =>
          LET phi   == ElementOf(LastLogged.el).props.phiDeg
              J0    == jonesFrom(sources[1].props.polPreset)
              plain == MirrorJ(J0)
              \* the way out was along the normal when the way back is not
              twice == Angle(phi.c * phi.c - phi.s * phi.s,
                             -path.dir.z * 2 * phi.c * phi.s)
          IN /\ path'.J = RthetaVec(twice, plain)
             /\ (phi.c # 0 /\ phi.s # 0) =>
                   (path'.J # plain /\ path'.J # NegJ(plain))]_vars

\* a horizontally polarised beam is back through a 45 degree rotator,
\* vertically polarised
C15_Witness ==
  /\ pc = "march"
  /\ Len(hitLog) = 3
  /\ hitLog[3].type = "faraday"
  /\ hitLog[2].type = "mirror"
  /\ hitLog[1].el = hitLog[3].el
  /\ ElementOf(hitLog[3].el).props.phiDeg = Angle(1, 1)
  /\ Len(sources) = 1
  /\ sources[1].props.polPreset = "Linear X"
  /\ path.dir.z = -sources[1].yaw
  /\ path.J.x = 0
  /\ path.J.y # 0

\* some sample of p was taken on a face of a lens: p has met a lens
MetLens(p) ==
  \E k \in 1..Len(p.pts), i \in 1..Len(elements) :
     /\ elements[i].type = "lens"
     /\ p.pts[k].v.off = 0
     /\ Abs(p.pts[k].v.z - elements[i].pos) = HALF_THICK

\* q of the path as it arrives at the element of the hit logged: the last
\* sample of the segment, which a pass-through element follows by one more
ArrivalQ ==
  IF LastLogged.type \in {"beamBlock", "beamSplitter", "mirror", "grating"}
  THEN path'.widths[Len(path'.widths)].v
  ELSE path'.widths[Len(path'.widths) - 1].v

\* the branches the hit logged has put on the queue
NewBranches == {queue'[k] : k \in (Len(queue) + 1)..Len(queue')}

\* C16: the free-space run of length L to an element maps q to q + L (the
\* imaginary part kept, the real part increased by L); and at every element
\* hit of a lineage that has met no lens (the mirrors are flat), on arrival
\* and on every ray that leaves, Im(q) is the Rayleigh range of the seed and
\* Re(q) is the distance the path has traveled.
C16_FreeSpace ==
  [][Logged =>
       LET L  == HitDist(path, ElementOf(LastLogged.el))
           zR == path.widths[1].v.im
       IN /\ ArrivalQ.im = path.q.im
          /\ ArrivalQ.re = path.q.re + L
          /\ path'.traveled = path.traveled + L
          /\ ~MetLens(path) =>
                /\ ArrivalQ.im = zR
                /\ ArrivalQ.re = path'.traveled
                /\ LastLogged.type # "lens" =>
                      /\ path'.q = ArrivalQ
                      /\ \A b \in NewBranches :
                            b.q = ArrivalQ /\ b.traveled = path'.traveled]_vars

\* a ray that has met no lens goes on from its second element, having
\* traveled, with q = traveled + i zR
C16_Witness ==
  /\ pc = "march"
  /\ Len(hitLog) >= 2
  /\ hitLog[Len(hitLog)].type # "lens"
  /\ ~MetLens(path)
  /\ path.traveled > 0
  /\ path.q.re = path.traveled
  /\ path.q.im = path.widths[1].v.im
  /\ path.q.im > 0

\* a step of undo(), of redo()
UndoStep == undoWithin(MaxUndoElemId, MaxUndoSrcId)
RedoStep == redoWithin(MaxUndoElemId, MaxUndoSrcId)
\* the scene is the one restoreState builds from the history entry at
\* historyIndex (ids apart)
SceneIsRestoreOf(entry) ==
  /\ sources' = RestoredSources(entry, sourceCounter)
  /\ elements' = RestoredElements(entry, ELEMENT_ID)

\* C17: an undo moves historyIndex one entry back and restores the entry it
\* lands on, a redo moves it one entry forward and restores that one, and
\* neither changes the history although the restore re-creates the sources
\* and elements through addSource and addElement; so k undos and then k
\* redos with no pushHistory between end on the entry they started from.
\* At the oldest entry undo does nothing, at the newest redo does nothing,
\* and historyIndex stays inside the history.
C17_UndoRedoRoundTrip ==
  [][/\ UndoStep => /\ historyIndex' = historyIndex - 1
                 /\ history' = history
                 /\ SceneIsRestoreOf(history[historyIndex' + 1])
     /\ RedoStep => /\ historyIndex' = historyIndex + 1
                 /\ history' = history
                 /\ SceneIsRestoreOf(history[historyIndex' + 1])
     /\ historyIndex = 0 => ~UndoStep
     /\ historyIndex = Len(history) - 1 => ~RedoStep
     /\ historyIndex' \in 0..(Len(history') - 1)]_vars

\* the start-up history after an undo and a redo: both restores done (the
\* element ids of two restores are used up), the index back on the newest
\* entry, the history as it was
C17_Witness ==
  /\ history = DemoHistory
  /\ historyIndex = Len(history) - 1
  /\ isRestoringState
  /\ ELEMENT_ID = 7
  /\ sourceCounter = 3
  /\ elements = RestoredElements(history[4], 5)

\* C18 (as the specification states it, for the elements): the restore of a
\* history entry by undo or redo leaves a scene whose capture has the
\* elements of that entry: the same type, position, orientation and
\* property bag, a custom label included.
C18_ElementsRoundTrip ==
  [][(UndoStep \/ RedoStep) =>
       captureState(sources', elements').elements
         = history[historyIndex' + 1].elements]_vars

\* the element types whose interaction the path itself goes on from
PassThroughTypes == {"lens", "multimeter", "polarizer", "waveplate", "faraday"}

\* the next intersection test of the ray p does not return the element id
NotReturned(p, id) == \A i \in Hits(p, elements) : elements[i].id # id

\* C19 (as the specification states it): after every element interaction
\* from which a ray goes on (the path through a pass-through element, a
\* branch made at a splitter, mirror or grating), lastHit of the ray that
\* goes on is the element just struck.
C19_LastHitIsStruck ==
  [][Logged =>
       /\ LastLogged.type \in PassThroughTypes => path'.lastHit = LastLogged.el
       /\ \A b \in NewBranches : b.lastHit = LastLogged.el]_vars

\* C19 (amended): the path that goes on from a lens or a detector and every
\* branch made at a splitter, mirror or grating has lastHit = the element
\* just struck; the path that goes on from a polarizer, waveplate or Faraday
\* rotator has lastHit = null and still stands on the entry face of the
\* element (it is not moved on); in every case the element just struck is
\* not returned by the next intersection test of the ray.
C19_StruckNotReturned ==
  [][Logged =>
       /\ LastLogged.type \in {"lens", "multimeter"} =>
             /\ path'.lastHit = LastLogged.el
             /\ NotReturned(path', LastLogged.el)
       /\ LastLogged.type \in {"polarizer", "waveplate", "faraday"} =>
             /\ path'.lastHit = NoHit
             /\ HitDist(path', ElementOf(LastLogged.el)) = 0
             /\ NotReturned(path', LastLogged.el)
       /\ \A b \in NewBranches :
             /\ b.lastHit = LastLogged.el
             /\ NotReturned(b, LastLogged.el)]_vars

\* a ray has gone through a polarizer: it ignores no surface and stands on
\* the entry face, with budget left to go on
C19_Witness ==
  /\ pc = "march"
  /\ hitLog # <<>>
  /\ hitLog[Len(hitLog)].type = "polarizer"
  /\ path.lastHit = NoHit
  /\ HitDist(path, ElementOf(hitLog[Len(hitLog)].el)) = 0
  /\ path.traveled < path.maxLen

\* C20 (as the specification states it): every ray path, the one marched,
\* the queued ones and the completed ones, has traveled no further than the
\* path length maxLen its seed was given.
C20_WithinBudget ==
  /\ pc \in {"march", "push"} => path.traveled <= path.maxLen
  /\ \A k \in 1..Len(queue) : queue[k].traveled <= queue[k].maxLen
  /\ \A k \in 1..Len(completedPaths) :
        completedPaths[k].traveled <= completedPaths[k].maxLen

\* C21: a dequeued path takes at most maxSegments interaction steps: the
\* step counter starts at 0 when a path is dequeued, whatever the paths
\* before it (its ancestors among them) did, goes up by one per pass of the
\* step loop that goes on, and never passes maxSegments; a path whose
\* counter has reached maxSegments meets no further element and is put on
\* the completed list as it is, travel budget left or not.
C21_StepBudget ==
  [][/\ (pc = "loop" /\ pc' = "march") => step' = 0
     /\ (pc = "march" /\ pc' = "march") => step' = step + 1
     /\ pc' \in {"march", "push"} => step' <= params.maxSegments
     /\ (pc = "march" /\ step >= params.maxSegments) =>
           /\ pc' = "push"
           /\ path' = path
           /\ hitLog' = hitLog
           /\ queue' = queue
     /\ pc = "push" => completedPaths' = Append(completedPaths, path)]_vars

\* a path has met maxSegments elements and is about to be completed with
\* length left
C21_Witness ==
  /\ pc = "push"
  /\ step = params.maxSegments
  /\ Len(hitLog) = params.maxSegments
  /\ path.traveled < path.maxLen
  /\ path.lastHit # NoHit

\* every path there is: the one marched, the queued, the completed
AllPaths ==
  (IF pc \in {"march", "push"} THEN {path} ELSE {})
  \cup {queue[k] : k \in 1..Len(queue)}
  \cup {completedPaths[k] : k \in 1..Len(completedPaths)}

\* the number of markers in the first k entries of a marker list
RECURSIVE MarkerCount(_, _)
MarkerCount(ps, k) == IF k = 0 THEN 0 ELSE ps[k].n + MarkerCount(ps, k - 1)

\* the markers of p stand at POL_SPACING/2 + k POL_SPACING of traveled
\* distance, k = 0, 1, 2, ..., none left out up to the length traveled
MarkersOnGrid(p) ==
  LET total == MarkerCount(p.polSamples, Len(p.polSamples)) IN
  /\ \A k \in 1..Len(p.polSamples) :
        /\ p.polSamples[k].n >= 1
        /\ p.polSamples[k].first =
             POL_SPACING \div 2 + POL_SPACING * MarkerCount(p.polSamples, k - 1)
  /\ total > 0 => POL_SPACING \div 2 + POL_SPACING * (total - 1) <= p.traveled
  /\ p.traveled + p.polSampleCountdown = POL_SPACING \div 2 + POL_SPACING * total

\* C22: with the polarization display on, the markers of every lineage
\* stand at the traveled distances POL_SPACING/2 + k POL_SPACING, k = 0, 1,
\* 2, ..., up to the length traveled, however the element hits cut the
\* free-space segments; after every segment 0 < polSampleCountdown <=
\* POL_SPACING; a branch has the countdown and the markers of its parent.
C22_PolMarkers ==
  /\ [](params.showPolarization =>
          \A p \in AllPaths :
             /\ MarkersOnGrid(p)
             /\ p.polSampleCountdown > 0
             /\ p.polSampleCountdown <= POL_SPACING)
  /\ [][Logged =>
          \A b \in NewBranches :
             /\ b.polSampleCountdown = path'.polSampleCountdown
             /\ b.polSamples = path'.polSamples]_vars

\* a branch is marched whose lineage was cut into segments that each hold
\* markers, the next marker less than a spacing ahead
C22_Witness ==
  /\ params.showPolarization
  /\ pc = "march"
  /\ path.lastHit # NoHit
  /\ Len(hitLog) >= 3
  /\ Len(path.polSamples) >= 3
  /\ path.polSampleCountdown < POL_SPACING
  /\ path.traveled > 3 * POL_SPACING

\* C23 (as the specification states it): a recompute called on a bench
\* without a source leaves the bench without a source: the source it adds
\* is removed before it returns. (A request is pending at the end of a
\* recompute only when the recompute itself has called addSource, whose
\* doRecompute() sets it.)
C23_ImplicitSourceRemoved ==
  [][(pc = "draw" /\ pc' = "idle" /\ recomputePending) => sources' = <<>>]_vars

\* a file of the single-purpose benches has just been loaded
BenchLoaded == \E file \in BenchFiles : LoadState(file, MaxElemId)

\* C24 (as the specification states it): the load of a state file puts the
\* loaded state on the history as a new step: the history gains one entry
\* after the current one, equal to the capture of the restored scene, and
\* historyIndex points at it.
C24_LoadIsUndoableStep ==
  [][BenchLoaded =>
       /\ Len(history') = historyIndex + 2
       /\ historyIndex' = Len(history') - 1
       /\ history'[historyIndex' + 1] = captureState(sources', elements')]_vars

\* a step of a handler that ends in pushHistory(): the slider released
SliderReleased == \E v \in SliderValues : SetMaxSegmentsWithin(v, MAX_HISTORY + 1)

\* C25: the history never holds more than MAX_HISTORY entries and
\* historyIndex is always the index of one of them; a pushHistory() that is
\* not held back by a restore drops the entries after historyIndex, appends
\* the capture of the scene, drops the oldest entry if that makes more than
\* MAX_HISTORY, and leaves historyIndex on the last entry, so that no redo
\* is possible; one held back by a restore changes nothing.
C25_HistoryBounds ==
  /\ [](Len(history) <= MAX_HISTORY)
  /\ [](historyIndex \in 0..(Len(history) - 1))
  /\ [][SliderReleased =>
          IF isRestoringState
          THEN history' = history /\ historyIndex' = historyIndex
          ELSE LET full == Append(SubSeq(history, 1, historyIndex + 1),
                                  captureState(sources', elements'))
               IN /\ history' = IF Len(full) > MAX_HISTORY
                                 THEN SubSeq(full, 2, Len(full)) ELSE full
                  /\ historyIndex' = Len(history') - 1
                  /\ ~(historyIndex' < Len(history') - 1)]_vars

\* the history is full and its two oldest entries have been dropped
C25_Witness ==
  /\ Len(history) = MAX_HISTORY
  /\ historyIndex = MAX_HISTORY - 1
  /\ history[1] = DemoHistory[3]

\* C26: doRecompute coalesces. At most one frame callback is pending, and
\* one is pending exactly when the flag is set, however many doRecompute
\* calls were made since the last frame; the callback clears the flag
\* before recompute runs, so the flag is set during a recompute only when
\* the recompute has itself asked for the next one (addSource on an empty
\* bench), also when the recompute throws; and a request is always served:
\* a set flag is cleared by a later callback.
C26_Coalesced ==
  /\ [](frameCallbacks = IF recomputePending THEN 1 ELSE 0)
  /\ [][(pc = "idle" /\ pc' = "loop") =>
          /\ frameCallbacks = 1
          /\ recomputePending' = (sources = <<>>)]_vars
  /\ [][pc # "idle" => recomputePending' = recomputePending]_vars
  /\ recomputePending ~> ~recomputePending

\* a recompute has thrown (no ribbon drawn, readouts of the broken run
\* left) and a new request is pending, with its one callback
C26_Witness ==
  /\ pc = "idle"
  /\ recomputePending
  /\ frameCallbacks = 1
  /\ ribbonMeshes = <<>>
  /\ DOMAIN elementLastInfo # {}

\* the hit logged is on a polarizing beam splitter
PBSHit ==
  /\ Logged
  /\ LastLogged.type = "beamSplitter"
  /\ ElementOf(LastLogged.el).props.polarizing

\* C27: at a polarizing beam splitter the transmitted branch has the Ey
\* component of the incoming Jones vector when polTransmit is "Vertical",
\* the Ex component otherwise, and zero for the other component; the
\* reflected branch has the other component, unchanged, and zero for the
\* transmitted one; so the two vectors add up to the incoming vector, and
\* the two intensities to the incoming intensity.
C27_PBSGating ==
  [][PBSHit =>
       LET vertical == ElementOf(LastLogged.el).props.polTransmit = "Vertical"
           Jx == Jones(path.J.x, 0, path.J.n, path.J.d)
           Jy == Jones(0, path.J.y, path.J.n, path.J.d)
           Jt == IF vertical THEN Jy ELSE Jx
           Jr == IF vertical THEN Jx ELSE Jy
       IN /\ Len(LastLogged.outs) = 2
          /\ LastLogged.outs[1] = jNorm2(Jt)
          /\ LastLogged.outs[2] = jNorm2(Jr)
          /\ RAdd(LastLogged.outs[1], LastLogged.outs[2]) = jNorm2(path.J)
          /\ \A b \in NewBranches :
                b.J = IF b.dir = path.dir THEN Jt ELSE Jr
          /\ \A k \in 1..2 :
                RLess(RZero, LastLogged.outs[k]) =>
                   \E b \in NewBranches : jNorm2(b.J) = LastLogged.outs[k]]_vars

\* a 45 degree polarised beam has met a PBS that transmits Ex: both
\* branches are queued, the transmitted one horizontal, the reflected one
\* vertical
C27_Witness ==
  /\ pc = "push"
  /\ hitLog # <<>>
  /\ hitLog[Len(hitLog)].type = "beamSplitter"
  /\ ElementOf(hitLog[Len(hitLog)].el).props.polarizing
  /\ ElementOf(hitLog[Len(hitLog)].el).props.polTransmit = "Horizontal"
  /\ Len(queue) = 2
  /\ queue[1].dir = path.dir /\ queue[1].J.y = 0 /\ queue[1].J.x # 0
  /\ queue[2].dir # path.dir /\ queue[2].J.x = 0 /\ queue[2].J.y # 0

\* the elements struck by a ray in the recompute that ran last
Struck == {hitLog[k].el : k \in 1..Len(hitLog)}

\* C28: after any sequence of scene edits and recomputes, each readout map
\* (elementLastInfo, meterLastInfo, gratingLastInfo) has an entry for an
\* element only if a ray struck that element during the most recent
\* recompute.
C28_ReadoutsRebuilt ==
  Recomputed =>
     /\ DOMAIN elementLastInfo \subseteq Struck
     /\ DOMAIN meterLastInfo \subseteq Struck
     /\ DOMAIN gratingLastInfo \subseteq Struck

\* C29: the four sample arrays pts, dirs, widths and amps of every path
\* (queued, in traversal or completed) have the same number of entries, at
\* least one, after seeding and after every traversal step, fork and
\* pass-through interaction.
C29_ParallelArrays ==
  \A p \in AllPaths :
     /\ Count(p.pts) >= 1
     /\ Count(p.dirs) = Count(p.pts)
     /\ Count(p.widths) = Count(p.pts)
     /\ Count(p.amps) = Count(p.pts)

\* a branch made at an element has been traversed to its end: its arrays
\* hold the samples of the parent, the sample pushed at the fork and the
\* dense samples of its own segment
C29_Witness ==
  \E k \in 1..Len(completedPaths) :
     /\ completedPaths[k].lastHit # NoHit
     /\ Len(completedPaths[k].pts) >= 3
     /\ Count(completedPaths[k].amps) > Len(completedPaths[k].amps)

Entries(arr) == {arr[k] : k \in 1..Len(arr)}

\* what the pick list is to hold for the scene as it stands
Pickable(srcs, els, rul) ==
  Entries(Meshes(els)) \cup Entries(Handles(srcs))
  \cup (IF rul THEN Entries(RulerPoints) ELSE {})

\* C30: after any sequence of add element, add source, delete, add and
\* remove ruler, undo, redo and load, the pick list selectable holds exactly
\* the meshes of the current elements, the handles of the current sources
\* and the three points of the ruler if it exists, each once; and an entry
\* that leaves the list in a step belongs to an object that leaves the scene
\* in that step.
C30_PickList ==
  /\ [](/\ Entries(selectable) = Pickable(sources, elements, ruler)
        /\ Len(selectable) = Cardinality(Entries(selectable)))
  /\ [][Entries(selectable) \ Entries(selectable')
          \subseteq Pickable(sources, elements, ruler)
                    \ Pickable(sources', elements', ruler')]_vars

\* the ruler stands at the end of the pick list, a source is on the bench
\* and the lens the bench started with is gone from the scene and the list
C30_Witness ==
  /\ ruler
  /\ selectable[Len(selectable)] = RulerPoints[3]
  /\ sources # <<>>
  /\ elements # <<>>
  /\ \A k \in 1..Len(selectable) : selectable[k] # Mesh(DemoLens.id)

=============================================================================
